---------------------------- MODULE Spec2Model ----------------------------
(***************************************************************************)
(* A model of the Legal-Document-Analyzer: the serverless backend          *)
(* (src/api/legal-ai.js), the client dispatcher (src/api-integrations.js)  *)
(* and the upload staging of the page script (src/main.js).                *)
(*                                                                         *)
(* A text is a sequence of tokens; a token is a TLA+ string standing for a *)
(* fixed run of characters (TokLen gives its length).  A JavaScript value  *)
(* whose type is not fixed by the code is a record tagged with its type:   *)
(*   undefined, null, Str(text), Bool(b), Arr(sequence), Obj(record).      *)
(* Every outbound call (Gemini, Natural Language, Hugging Face, Translate) *)
(* is answered by the environment: the answers of one request are the      *)
(* fields of an "oracle" record o that the handling action draws with \E.  *)
(***************************************************************************)
EXTENDS Integers, Sequences, FiniteSets, TLC

VARIABLES
    cfg,        \* API_CONFIG: which environment keys are set
    model,      \* the module-level `model` of legal-ai.js: TRUE once initialised
    now,        \* the wall clock read by new Date()
    pc,         \* position of the backend: "idle" or "received"
    req,        \* the request being (or last) handled
    resp,       \* the responses sent for req, in order
    ops,        \* the switch cases executed for req, in order
    calls,      \* the outbound calls made for req, in order
    inflight,   \* the calls of calls (by position) that have not returned yet
    memo,       \* answers a deterministic (mocked) upstream has given so far
    runs,       \* outputs of summarizeDocument runs against that upstream
    net,        \* client dispatcher: requests and responses in flight
    done,       \* client dispatcher: completed invocations
    invoked,    \* the calls of _callServerless made so far, in order
    uploadedFiles,  \* main.js: the staged files
    fileList,   \* main.js: the rendered #file-list, one entry per div
    selector,   \* main.js: the options of #viewer-document
    alerts,     \* main.js: alert() messages shown
    uploads,    \* main.js: the files of each upload event so far
    removals,   \* main.js: the argument of each call of removeFile so far
    timers,     \* main.js: the runs started by simulateProcessing
    progressVisible, \* main.js: #progress-container is displayed
    uiNow,      \* main.js: the browser's Date.now() when last read
    progressShown,  \* main.js: what #progress-fill and #progress-text show
    completions,    \* main.js: the run of each call of showProcessingComplete so far
    chatMessages,   \* main.js: the message divs of #chat-messages, in order
    chatTimers, \* main.js: the setTimeout callbacks of sendMessage still to run
    chatEvents, \* main.js: the sends and replies of the chat so far, in order
    trIn,       \* translateText on texts: its inputs and the answers it got
    trOut       \* translateText on texts: what it returned

vars == <<cfg, model, now, pc, req, resp, ops, calls, inflight, memo, runs, net, done,
          invoked,
          uploadedFiles, fileList, selector, alerts, uploads, removals, timers,
          progressVisible, uiNow, progressShown, completions, chatMessages, chatTimers,
          chatEvents, trIn, trOut>>

backendVars == <<cfg, model, now, pc, req, resp, ops, calls, inflight>>
detVars     == <<memo, runs>>
clientVars  == <<net, done, invoked>>
progressVars == <<timers, progressVisible, progressShown, completions>>
chatVars    == <<chatMessages, chatTimers, chatEvents>>
uploadVars  == <<uploadedFiles, fileList, selector, alerts, uploads, removals, uiNow,
                 progressVars, chatVars>>
trVars      == <<trIn, trOut>>

-----------------------------------------------------------------------------
(* JavaScript values and texts.                                            *)

undefined == [t |-> "undefined"]
null == [t |-> "null"]
Str(s) == [t |-> "string", v |-> s]
Bool(b) == [t |-> "boolean", v |-> b]
Arr(a) == [t |-> "array", v |-> a]
Obj(r) == [t |-> "object", v |-> r]

\* !!x
Truthy(x) ==
    CASE x.t = "undefined" -> FALSE
      [] x.t = "null" -> FALSE
      [] x.t = "string" -> x.v # <<>>
      [] x.t = "boolean" -> x.v
      [] OTHER -> TRUE

\* `${x}`: the text a template puts in place of x
ToStr(x) ==
    CASE x.t = "string" -> x.v
      [] x.t = "undefined" -> <<"undefined">>
      [] x.t = "null" -> <<"null">>
      [] x.t = "boolean" -> <<IF x.v THEN "true" ELSE "false">>
      [] OTHER -> <<"[object Object]">>

\* Characters a token stands for. "PAD" is a run of 1000 ordinary
\* characters; every other token of an input text is written out.
TokLen(tok) ==
    CASE tok = "PAD" -> 1000
      [] tok = "Legal entities:" -> 15
      [] tok = ", " -> 2
      [] OTHER -> 1

RECURSIVE StrLen(_)
StrLen(s) == IF s = <<>> THEN 0 ELSE TokLen(Head(s)) + StrLen(Tail(s))

\* s.substring(0, n): the longest prefix of at most n characters (input
\* texts carry their PAD tokens first, so the cut falls between tokens).
RECURSIVE Substring(_, _)
Substring(s, n) ==
    IF s = <<>> \/ TokLen(Head(s)) > n THEN <<>>
    ELSE <<Head(s)>> \o Substring(Tail(s), n - TokLen(Head(s)))

\* names.join(', '): an undefined or null element is joined as ''
JoinStr(x) == IF x.t \in {"undefined", "null"} THEN <<>> ELSE ToStr(x)

RECURSIVE Join(_)
Join(names) ==
    IF names = <<>> THEN <<>>
    ELSE IF Len(names) = 1 THEN JoinStr(names[1])
    ELSE JoinStr(names[1]) \o <<", ">> \o Join(Tail(names))

\* array.slice(0, n)
Slice(a, n) == SubSeq(a, 1, IF Len(a) < n THEN Len(a) ELSE n)


\* new Date().toISOString() at clock value t
toISOString(t) == Str(<<ToString(t)>>)

-----------------------------------------------------------------------------
(* LegalAIService (src/api/legal-ai.js).  An operation returns             *)
(*   [ret |-> the value it returns, log |-> the outbound calls it made]    *)
(* and a helper that can throw returns [ok, val, err, log], err being the  *)
(* message of the error thrown.                                            *)

availableServices_swapped(c) ==
    [ai |-> <<"gemini">>,
     nlp |-> c.nlp,
     documentAI |-> c.documentAI,
     translation |-> c.documentAI,
     huggingface |-> c.huggingface]

\* constructor: availableServices from the configured keys
availableServices(c) ==
    [ai |-> <<"gemini">>,
     nlp |-> c.nlp,
     documentAI |-> c.documentAI,
     translation |-> c.translate,
     huggingface |-> c.huggingface]

TypeErrorSubstring == <<"Cannot read properties of undefined (reading 'substring')">>
TypeErrorBody == <<"Cannot destructure property 'action' of 'req.body' as it is undefined.">>

Call(svc, arg, ok) == [svc |-> svc, arg |-> arg, ok |-> ok]

_callGemini_swallow(prompt, type, o) ==
    [ok  |-> TRUE,
     val |-> IF o.gem.ok THEN Str(o.gem.text) ELSE Str(<<>>),
     err |-> <<>>,
     log |-> <<Call("gemini", Str(prompt), o.gem.ok)>>]

_callGemini_retry(prompt, type, o) ==
    [ok  |-> o.gem.ok,
     val |-> IF o.gem.ok THEN Str(o.gem.text) ELSE undefined,
     err |-> IF o.gem.ok THEN <<>> ELSE <<"Gemini API error: ">> \o o.gem.message,
     log |-> IF o.gem.ok THEN <<Call("gemini", Str(prompt), TRUE)>>
             ELSE <<Call("gemini", Str(prompt), FALSE),
                    Call("gemini", Str(prompt), FALSE)>>]

_callGemini_decorated(prompt, type, o) ==
    [ok  |-> o.gem.ok,
     val |-> IF o.gem.ok THEN Str(<<"AI: ">> \o o.gem.text) ELSE undefined,
     err |-> IF o.gem.ok THEN <<>> ELSE <<"Gemini API error: ">> \o o.gem.message,
     log |-> <<Call("gemini", Str(prompt), o.gem.ok)>>]

\* _callGemini: the model's text, or a rethrown "Gemini API error: ..."
_callGemini(prompt, type, o) ==
    [ok  |-> o.gem.ok,
     val |-> IF o.gem.ok THEN Str(o.gem.text) ELSE undefined,
     err |-> IF o.gem.ok THEN <<>> ELSE <<"Gemini API error: ">> \o o.gem.message,
     log |-> <<Call("gemini", Str(prompt), o.gem.ok)>>]

\* _analyzeWithNaturalLanguage: never throws; every failure (a text that is
\* undefined included) gives { entities: [], sentiment: { score: 0 } }
NlpDefault == [entities |-> <<>>, sentiment |-> [score |-> 0]]

_analyzeWithNaturalLanguage(text, o) ==
    IF text.t # "string" THEN [val |-> NlpDefault, log |-> <<>>]
    ELSE LET sent == Call("nlp", Str(Substring(text.v, 10000)), o.nlp.kind = "ok")
         IN IF o.nlp.kind # "ok" THEN [val |-> NlpDefault, log |-> <<sent>>]
            ELSE [val |-> [entities |-> IF Truthy(o.nlp.data.entities)
                                        THEN o.nlp.data.entities.v ELSE <<>>,
                           sentiment |-> IF Truthy(o.nlp.data.documentSentiment)
                                         THEN o.nlp.data.documentSentiment.v
                                         ELSE [score |-> 0],
                           syntax |-> <<>>,
                           classification |-> <<>>],
                  log |-> <<sent>>]

_summarizeWithHuggingFace_silent(text, type, o) == [val |-> null, log |-> <<>>]

\* _summarizeWithHuggingFace: the summary_text of the reply, null on any error
_summarizeWithHuggingFace(text, type, o) ==
    IF text.t # "string" THEN [val |-> null, log |-> <<>>]
    ELSE LET sent == Call("hf", Str(Substring(text.v, 1000)),
                          o.hf.kind \in {"okArray", "okObject"})
             val == CASE o.hf.kind = "okArray" ->
                           IF o.hf.data = <<>> THEN null  \* data[0].summary_text throws
                           ELSE o.hf.data[1].summary_text
                      [] o.hf.kind = "okObject" -> o.hf.data.summary_text
                      [] OTHER -> null
         IN [val |-> val, log |-> <<sent>>]

\* `${score}` of a score kept in tenths
ScoreStr(n) ==
    IF n < 0 THEN <<"-0." \o ToString(0 - n)>> ELSE <<"0." \o ToString(n)>>

EntityNames(entities) == [i \in 1..Len(entities) |-> entities[i].name]

_buildLegalPrompt(question, context) ==
    <<"As an expert in Indian law, ... Question: ">> \o ToStr(question)
    \o <<"\n\nContext: ">> \o context
    \o <<"\n\nPlease include: 1. ... 5. Important deadlines or procedures\n\nResponse:">>

\* typeInstructions[type]
TypeInstructions(type) ==
    CASE type = <<"comprehensive">> -> <<"Provide a comprehensive summary covering all key aspects">>
      [] type = <<"executive">> -> <<"Focus on executive-level insights and key decisions">>
      [] type = <<"keypoints">> -> <<"Extract and list the most important key points">>
      [] type = <<"timeline">> -> <<"Present events and decisions in chronological order">>
      [] OTHER -> <<"undefined">>

\* lengthInstructions[length]
LengthInstructions(length) ==
    CASE length = <<"short">> -> <<"in 2-3 concise paragraphs">>
      [] length = <<"medium">> -> <<"in 4-6 detailed paragraphs">>
      [] length = <<"long">> -> <<"in a comprehensive analysis with multiple sections">>
      [] OTHER -> <<"undefined">>

\* a prompt that numbers the request it is built for
_buildSummarizationPrompt_numbered(text, type, length, nlpAnalysis) ==
    IF text.t # "string" THEN [ok |-> FALSE, val |-> <<>>, err |-> TypeErrorSubstring]
    ELSE [ok |-> TRUE,
          val |-> <<"Request ", ToString(Len(runs)), ": provide a ">>
                  \o ToStr(type) \o <<" summary ">>
                  \o LengthInstructions(ToStr(length))
                  \o <<"\n\nDocument to analyze:\n">> \o Substring(text.v, 4000),
          err |-> <<>>]

\* throws a TypeError when text is undefined
_buildSummarizationPrompt(text, type, length, nlpAnalysis) ==
    IF text.t # "string" THEN [ok |-> FALSE, val |-> <<>>, err |-> TypeErrorSubstring]
    ELSE [ok |-> TRUE,
          val |-> <<"You are an expert legal document analyst ... provide a ">>
                  \o ToStr(type) \o <<" summary ">>
                  \o LengthInstructions(ToStr(length))
                  \o <<".\n\n">> \o TypeInstructions(ToStr(type)) \o <<"\n\n">>
                  \o (IF nlpAnalysis # <<>>
                      THEN <<"NLP Analysis Insights: ">> \o nlpAnalysis ELSE <<>>)
                  \o <<"\n\nDocument to analyze:\n">> \o Substring(text.v, 4000)
                  \o <<"...\n\nPlease structure your summary with: 1. ... 6. ...\n\nSummary:">>,
          err |-> <<>>]

_buildSearchPrompt_lenient(query, documentText) ==
    [ok |-> TRUE,
     val |-> <<"You are an AI legal research assistant ... semantic search for: \"">>
             \o ToStr(query) \o <<"\"\n\nDocument content:\n">>
             \o (IF documentText.t = "string" THEN Substring(documentText.v, 3000)
                 ELSE <<"undefined">>)
             \o <<"...\n\nPlease provide: 1. ... 6. ...\n\nSearch Results:">>,
     err |-> <<>>]

\* throws a TypeError when documentText is undefined
_buildSearchPrompt(query, documentText) ==
    IF documentText.t # "string"
    THEN [ok |-> FALSE, val |-> <<>>, err |-> TypeErrorSubstring]
    ELSE [ok |-> TRUE,
          val |-> <<"You are an AI legal research assistant ... semantic search for: \"">>
                  \o ToStr(query) \o <<"\"\n\nDocument content:\n">>
                  \o Substring(documentText.v, 3000)
                  \o <<"...\n\nPlease provide: 1. ... 6. ...\n\nSearch Results:">>,
          err |-> <<>>]

RECURSIVE EntityList(_)
EntityList(entities) ==
    IF entities = <<>> THEN <<>>
    ELSE ToStr(entities[1].name) \o <<" (">> \o ToStr(entities[1].type) \o <<")">>
         \o (IF Len(entities) = 1 THEN <<>> ELSE <<", ">> \o EntityList(Tail(entities)))

\* nlpResult.entities is an array here, so the early return '' is not taken
_formatNLPAnalysis(nlpResult) ==
    LET entities == EntityList(Slice(nlpResult.entities, 10))
        sentiment == nlpResult.sentiment.score
    IN <<"Key entities detected: ">> \o entities \o <<". Document sentiment: ">>
       \o <<IF sentiment > 1 THEN "positive"
            ELSE IF sentiment < -1 THEN "negative" ELSE "neutral">>
       \o <<".">>

\* Fallback methods
_getFallbackLegalResponse(question) ==
    <<"**Legal Question: \"">> \o ToStr(question)
    \o <<"\"**\n\n... This is a demonstration response. Configure your Gemini API key ...">>

_getFallbackSummary(summaryType, summaryLength) ==
    <<"**Enhanced Document Summary (">> \o ToStr(summaryType) \o <<" - ">>
    \o ToStr(summaryLength)
    \o <<")**\n\n... This is a demonstration summary. Configure your Gemini API key ...">>

_getFallbackTranslation(text, sourceLang, targetLang) ==
    <<"**Enhanced Translation System**\n\nOriginal text: ">> \o ToStr(text)
    \o <<"\n\nConfigure Google Translate API ... configure APIs for full functionality.*">>

_getFallbackSearchResults(query) ==
    <<"**Gemini AI Semantic Search Results for: \"">> \o ToStr(query)
    \o <<"\"**\n\n... Configure your Gemini API key for comprehensive search capabilities ...">>

FallbackComparison == <<"Document comparison failed. Please check your configuration.">>

_searchWithNaturalLanguage(query, text) ==
    <<"NLP-based search results for: ">> \o ToStr(query)

_searchLegalEntities(query, text) ==
    <<"Legal entity search results for: ">> \o ToStr(query)

RECURSIVE CombineBody(_)
CombineBody(results) ==
    IF results = <<>> THEN <<>>
    ELSE <<"### ">> \o results[1].source \o <<" Analysis\n">>
         \o results[1].results \o <<"\n\n">> \o CombineBody(Tail(results))

_combineSearchResults(results, query) ==
    IF results = <<>> THEN _getFallbackSearchResults(query)
    ELSE <<"**Enhanced Semantic Search Results for: \"">> \o ToStr(query)
         \o <<"\"**\n\n">> \o CombineBody(results)
         \o <<"\n**Gemini AI Analysis Complete**\n">>
         \o <<"Used ">> \o <<ToString(Len(results))>>
         \o <<" service(s) for comprehensive analysis.">>

-----------------------------------------------------------------------------
(* The six operations.                                                     *)

askLegalQuestion_enrichmentFatal(question, documentContextArg, svc, o) ==
    LET documentContext == IF documentContextArg.t = "undefined" THEN Str(<<>>)
                           ELSE documentContextArg
        useNlp == svc.nlp /\ Truthy(documentContext)
        nlp == _analyzeWithNaturalLanguage(
                   Str(Substring(documentContext.v, 1000)), o)
        prompt == _buildLegalPrompt(question, ToStr(documentContext))
        response == _callGemini(prompt, "legal_qa", o)
    IN IF useNlp /\ o.nlp.kind # "ok"
       THEN [ret |-> Str(_getFallbackLegalResponse(question)), log |-> nlp.log]
       ELSE IF response.ok /\ Truthy(response.val)
       THEN [ret |-> response.val,
             log |-> (IF useNlp THEN nlp.log ELSE <<>>) \o response.log]
       ELSE [ret |-> Str(_getFallbackLegalResponse(question)),
             log |-> (IF useNlp THEN nlp.log ELSE <<>>) \o response.log]

askLegalQuestion(question, documentContextArg, svc, o) ==
    LET documentContext == IF documentContextArg.t = "undefined" THEN Str(<<>>)
                           ELSE documentContextArg
        useNlp == svc.nlp /\ Truthy(documentContext)
        nlp == _analyzeWithNaturalLanguage(
                   Str(Substring(documentContext.v, 1000)), o)
        names == Join(EntityNames(nlp.val.entities))
        score == nlp.val.sentiment.score
        enhancedContext ==
            IF useNlp
            THEN ToStr(documentContext)
                 \o <<"\n\nKey entities: ">>
                 \o (IF names # <<>> THEN names ELSE <<"None detected">>)
                 \o <<"\nDocument sentiment: ">>
                 \o (IF score # 0 THEN ScoreStr(score) ELSE <<"neutral">>)
            ELSE ToStr(documentContext)
        prompt == _buildLegalPrompt(question, enhancedContext)
        response == _callGemini(prompt, "legal_qa", o)
        log == (IF useNlp THEN nlp.log ELSE <<>>) \o response.log
    IN IF response.ok /\ Truthy(response.val)
       THEN [ret |-> response.val, log |-> log]
       ELSE [ret |-> Str(_getFallbackLegalResponse(question)), log |-> log]

summarizeDocument(documentText, summaryTypeArg, summaryLengthArg, svc, o) ==
    LET summaryType == IF summaryTypeArg.t = "undefined" THEN Str(<<"comprehensive">>)
                       ELSE summaryTypeArg
        summaryLength == IF summaryLengthArg.t = "undefined" THEN Str(<<"medium">>)
                         ELSE summaryLengthArg
        \* documentText.substring(0, 5000) throws inside the inner try
        useNlp == svc.nlp /\ documentText.t = "string"
        nlp == _analyzeWithNaturalLanguage(Str(Substring(documentText.v, 5000)), o)
        enhancedAnalysis == IF useNlp THEN _formatNLPAnalysis(nlp.val) ELSE <<>>
        prompt == _buildSummarizationPrompt(documentText, summaryType,
                                            summaryLength, enhancedAnalysis)
        hf == _summarizeWithHuggingFace(documentText, summaryType, o)
        useGemini == ~(svc.huggingface /\ Truthy(hf.val))
        gem == _callGemini(prompt.val, "summarization", o)
        summary == IF useGemini THEN gem.val ELSE hf.val
        log == (IF useNlp THEN nlp.log ELSE <<>>)
               \o (IF prompt.ok /\ svc.huggingface THEN hf.log ELSE <<>>)
               \o (IF prompt.ok /\ useGemini THEN gem.log ELSE <<>>)
    IN IF prompt.ok /\ (useGemini => gem.ok) /\ Truthy(summary)
       THEN [ret |-> summary, log |-> log]
       ELSE [ret |-> Str(_getFallbackSummary(summaryType, summaryLength)),
             log |-> log]

\* translation.replace(/\[Legal entities:.*?\]/g, ''): left to right, each
\* "[" "Legal entities:" ... "]" with no line break inside is removed, the
\* scan going on after the removed note.
RECURSIVE NoteEnd(_, _)
NoteEnd(s, j) ==
    IF j > Len(s) \/ s[j] = "\n" THEN 0
    ELSE IF s[j] = "]" THEN j
    ELSE NoteEnd(s, j + 1)

RECURSIVE StripNotes(_)
StripNotes(s) ==
    IF s = <<>> THEN <<>>
    ELSE LET e == IF Len(s) >= 2 /\ s[1] = "[" /\ s[2] = "Legal entities:"
                  THEN NoteEnd(s, 3) ELSE 0
         IN IF e > 0 THEN StripNotes(SubSeq(s, e + 1, Len(s)))
            ELSE <<Head(s)>> \o StripNotes(Tail(s))

IsSpace(tok) == tok \in {" ", "\n"}

RECURSIVE TrimStart(_)
TrimStart(s) == IF s # <<>> /\ IsSpace(Head(s)) THEN TrimStart(Tail(s)) ELSE s

RECURSIVE TrimEnd(_)
TrimEnd(s) ==
    IF s # <<>> /\ IsSpace(s[Len(s)]) THEN TrimEnd(SubSeq(s, 1, Len(s) - 1)) ELSE s

\* translation.trim()
Trim(s) == TrimEnd(TrimStart(s))

IsParty(e) == e.type = Str(<<"ORGANIZATION">>) \/ e.type = Str(<<"PERSON">>)

\* the note translateText appends for the entities it found
Annotation(entities) ==
    <<"\n", "\n", "[", "Legal entities:", " ">>
    \o Join(EntityNames(entities)) \o <<"]">>

translateText(text, sourceLang, targetLang, svc, o) ==
    LET fallback == Str(_getFallbackTranslation(text, sourceLang, targetLang))
        useNlp == svc.nlp /\ StrLen(text.v) > 100
        nlp == _analyzeWithNaturalLanguage(text, o)
        entities == SelectSeq(nlp.val.entities, IsParty)
        contextualText == IF useNlp /\ Len(entities) > 0
                          THEN Str(text.v \o Annotation(entities)) ELSE text
        sent == Call("translate", contextualText, o.tr.kind = "ok")
        log == (IF useNlp THEN nlp.log ELSE <<>>) \o <<sent>>
        translated ==
            /\ o.tr.kind = "ok"
            /\ o.tr.json.data.t = "object"
            /\ o.tr.json.data.v.translations # <<>>
            /\ o.tr.json.data.v.translations[1].translatedText.t = "string"
    IN IF ~svc.translation THEN [ret |-> fallback, log |-> <<>>]
       \* text.length throws when text is undefined
       ELSE IF svc.nlp /\ text.t # "string" THEN [ret |-> fallback, log |-> <<>>]
       ELSE IF ~translated THEN [ret |-> fallback, log |-> log]
       ELSE [ret |-> Str(Trim(StripNotes(
                         o.tr.json.data.v.translations[1].translatedText.v))),
             log |-> log]

SearchResult(source, results) == [source |-> source, results |-> results]

performSemanticSearch_partial(query, documentText, svc, o) ==
    LET nlpPart == IF svc.nlp
                   THEN <<SearchResult(<<"Google Natural Language">>,
                                       _searchWithNaturalLanguage(query, documentText))>>
                   ELSE <<>>
        searchPrompt == _buildSearchPrompt(query, documentText)
        gem == _callGemini(searchPrompt.val, "search", o)
        gemPart == IF Truthy(gem.val)
                   THEN <<SearchResult(<<"Gemini AI">>, ToStr(gem.val))>> ELSE <<>>
        hfPart == IF svc.huggingface
                  THEN <<SearchResult(<<"Legal Entity Search">>,
                                      _searchLegalEntities(query, documentText))>>
                  ELSE <<>>
    IN IF ~searchPrompt.ok
       THEN [ret |-> Str(_getFallbackSearchResults(query)), log |-> <<>>]
       ELSE IF ~gem.ok
       THEN [ret |-> Str(_combineSearchResults(nlpPart, query)), log |-> gem.log]
       ELSE [ret |-> Str(_combineSearchResults(nlpPart \o gemPart \o hfPart, query)),
             log |-> gem.log]

performSemanticSearch(query, documentText, svc, o) ==
    LET nlpPart == IF svc.nlp
                   THEN <<SearchResult(<<"Google Natural Language">>,
                                       _searchWithNaturalLanguage(query, documentText))>>
                   ELSE <<>>
        searchPrompt == _buildSearchPrompt(query, documentText)
        gem == _callGemini(searchPrompt.val, "search", o)
        gemPart == IF Truthy(gem.val)
                   THEN <<SearchResult(<<"Gemini AI">>, ToStr(gem.val))>> ELSE <<>>
        hfPart == IF svc.huggingface
                  THEN <<SearchResult(<<"Legal Entity Search">>,
                                      _searchLegalEntities(query, documentText))>>
                  ELSE <<>>
    IN IF ~searchPrompt.ok
       THEN [ret |-> Str(_getFallbackSearchResults(query)), log |-> <<>>]
       ELSE IF ~gem.ok
       THEN [ret |-> Str(_getFallbackSearchResults(query)), log |-> gem.log]
       ELSE [ret |-> Str(_combineSearchResults(nlpPart \o gemPart \o hfPart, query)),
             log |-> gem.log]

compareDocuments_orFallback(doc1Text, doc2Text, o) ==
    LET prompt == <<"As a legal AI expert ... compare these two documents ... Document 1:\n">>
                  \o Substring(doc1Text.v, 2000) \o <<"...\n\nDocument 2:\n">>
                  \o Substring(doc2Text.v, 2000)
                  \o <<"...\n\nPlease provide a detailed comparison analysis:">>
        gem == _callGemini(prompt, "comparison", o)
    IN IF doc1Text.t # "string" \/ doc2Text.t # "string"
       THEN [ret |-> Str(FallbackComparison), log |-> <<>>]
       ELSE IF ~gem.ok \/ ~Truthy(gem.val)
       THEN [ret |-> Str(FallbackComparison), log |-> gem.log]
       ELSE [ret |-> gem.val, log |-> gem.log]

compareDocuments(doc1Text, doc2Text, o) ==
    LET prompt == <<"As a legal AI expert ... compare these two documents ... Document 1:\n">>
                  \o Substring(doc1Text.v, 2000) \o <<"...\n\nDocument 2:\n">>
                  \o Substring(doc2Text.v, 2000)
                  \o <<"...\n\nPlease provide a detailed comparison analysis:">>
        gem == _callGemini(prompt, "comparison", o)
    IN IF doc1Text.t # "string" \/ doc2Text.t # "string"
       THEN [ret |-> Str(FallbackComparison), log |-> <<>>]
       ELSE IF ~gem.ok THEN [ret |-> Str(FallbackComparison), log |-> gem.log]
       ELSE [ret |-> gem.val, log |-> gem.log]

RiskFailure_stamped(message) ==
    Obj([nlpAnalysis |-> null, aiAssessment |-> Str(message),
         timestamp |-> Str(<<>>)])

\* the record the catch of assessLegalRisk returns
RiskFailure(message) ==
    Obj([error |-> Str(<<"Risk assessment failed">>), details |-> Str(message)])

assessLegalRisk(documentText, svc, o, t) ==
    LET nlp == _analyzeWithNaturalLanguage(documentText, o)
        assessments == IF svc.nlp
                       THEN <<Obj([source |-> Str(<<"Natural Language Analysis">>),
                                   sentiment |-> Obj(nlp.val.sentiment),
                                   entities |-> Arr(nlp.val.entities)])>>
                       ELSE <<>>
        nlpLog == IF svc.nlp THEN nlp.log ELSE <<>>
        riskPrompt == <<"As a legal risk analyst ... assess the legal risks in this document:\n\n">>
                      \o Substring(documentText.v, 3000)
                      \o <<"...\n\nProvide: 1. Risk level (Low/Medium/High) ... Assessment:">>
        gem == _callGemini(riskPrompt, "risk_analysis", o)
    IN IF documentText.t # "string"
       THEN [ret |-> RiskFailure(TypeErrorSubstring), log |-> nlpLog]
       ELSE IF ~gem.ok
       THEN [ret |-> RiskFailure(gem.err), log |-> nlpLog \o gem.log]
       ELSE [ret |-> Obj([nlpAnalysis |-> IF assessments # <<>> THEN assessments[1]
                                          ELSE null,
                          aiAssessment |-> gem.val,
                          timestamp |-> toISOString(t)]),
             log |-> nlpLog \o gem.log]

-----------------------------------------------------------------------------
(* The serverless handler (src/api/legal-ai.js, handler).                  *)

initializeGemini_noCheck(c) == [ok |-> TRUE, err |-> <<>>]

\* initializeGemini: throws when GEMINI_API_KEY is not set
initializeGemini(c) ==
    IF ~c.gemini
    THEN [ok |-> FALSE, err |-> <<"GEMINI_API_KEY environment variable is required">>]
    ELSE [ok |-> TRUE, err |-> <<>>]

\* res.status(n).json(obj): JSON.stringify leaves out a field that is undefined
Json(obj) ==
    LET kept == {f \in DOMAIN obj : obj[f].t # "undefined"}
    IN [f \in kept |-> obj[f]]

SendJson(status, obj) == [status |-> status, json |-> TRUE, body |-> Json(obj)]

\* res.status(200).end(): a response without a body
SendEnd(status) == [status |-> status, json |-> FALSE, body |-> <<>>]

\* the message of the error the default case throws
UnknownAction_noName(action) == <<"Unknown action">>

UnknownAction(action) == <<"Unknown action: ">> \o ToStr(action)

\* the switch on action: the case executed and what it returns, or the error
\* the default case throws
Dispatch(action, params, svc, o, t) ==
    CASE action = Str(<<"askLegalQuestion">>) ->
           [ok |-> TRUE, op |-> "askLegalQuestion",
            r |-> askLegalQuestion(params.question, params.documentContext, svc, o)]
      [] action = Str(<<"summarizeDocument">>) ->
           [ok |-> TRUE, op |-> "summarizeDocument",
            r |-> summarizeDocument(params.documentText, params.summaryType,
                                    params.summaryLength, svc, o)]
      [] action = Str(<<"translateText">>) ->
           [ok |-> TRUE, op |-> "translateText",
            r |-> translateText(params.text, params.sourceLang,
                                params.targetLang, svc, o)]
      [] action = Str(<<"performSemanticSearch">>) ->
           [ok |-> TRUE, op |-> "performSemanticSearch",
            r |-> performSemanticSearch(params.query, params.documentText, svc, o)]
      [] action = Str(<<"compareDocuments">>) ->
           [ok |-> TRUE, op |-> "compareDocuments",
            r |-> compareDocuments(params.doc1Text, params.doc2Text, o)]
      [] action = Str(<<"assessLegalRisk">>) ->
           [ok |-> TRUE, op |-> "assessLegalRisk",
            r |-> assessLegalRisk(params.documentText, svc, o, t)]
      [] action = Str(<<"healthCheck">>) ->
           [ok |-> TRUE, op |-> "healthCheck",
            r |-> [ret |-> Obj([status |-> Str(<<"healthy">>),
                                services |-> Obj(svc),
                                timestamp |-> toISOString(t)]),
                   log |-> <<>>]]
      [] OTHER ->
           [ok |-> FALSE, err |-> UnknownAction(action)]

Failure_status200(message, t) ==
    [status |-> 200, json |-> TRUE,
     body |-> [success |-> Bool(FALSE), error |-> Str(message),
               timestamp |-> toISOString(t)]]

\* the catch of the handler: status 500 and the failure envelope
Failure(message, t) ==
    SendJson(500, [success |-> Bool(FALSE), error |-> Str(message),
                   timestamp |-> toISOString(t)])

handler_warm(rq, c, mdl, t1, t2, o) ==
    [resp |-> IF mdl THEN <<SendEnd(200)>> ELSE <<Failure(TypeErrorBody, t2)>>,
     ops |-> <<>>, calls |-> <<>>, model |-> TRUE]

\* handler(req, res) run to its end with the module-level model being mdl:
\* t1 is the clock while the operation runs, t2 when the response is sent.
handler(rq, c, mdl, t1, t2, o) ==
    LET init == IF mdl THEN [ok |-> TRUE, err |-> <<>>] ELSE initializeGemini(c)
        legalAI == availableServices(c)
        d == Dispatch(rq.body.v.action, rq.body.v, legalAI, o, t1)
    IN IF rq.method = "OPTIONS"
       THEN [resp |-> <<SendEnd(200)>>, ops |-> <<>>, calls |-> <<>>, model |-> mdl]
       ELSE IF ~init.ok
       THEN [resp |-> <<Failure(init.err, t2)>>, ops |-> <<>>, calls |-> <<>>,
             model |-> mdl]
       ELSE IF rq.body.t # "object"
       THEN [resp |-> <<Failure(TypeErrorBody, t2)>>, ops |-> <<>>, calls |-> <<>>,
             model |-> TRUE]
       ELSE IF ~d.ok
       THEN [resp |-> <<Failure(d.err, t2)>>, ops |-> <<>>, calls |-> <<>>,
             model |-> TRUE]
       ELSE [resp |-> <<SendJson(200, [success |-> Bool(TRUE), data |-> d.r.ret,
                                       timestamp |-> toISOString(t2)])>>,
             ops |-> <<d.op>>, calls |-> d.r.log, model |-> TRUE]

-----------------------------------------------------------------------------
(* Inputs: the requests that arrive and the answers of the outside world.  *)

Doc == <<"PAD", "a">>
OtherDoc == <<"PAD", "b">>
Question == <<"q">>

NoParams ==
    [action |-> undefined, question |-> undefined, documentContext |-> undefined,
     documentText |-> undefined, summaryType |-> undefined,
     summaryLength |-> undefined, text |-> undefined, sourceLang |-> undefined,
     targetLang |-> undefined, query |-> undefined, doc1Text |-> undefined,
     doc2Text |-> undefined]

ActionNames ==
    {<<"askLegalQuestion">>, <<"summarizeDocument">>, <<"translateText">>,
     <<"performSemanticSearch">>, <<"compareDocuments">>, <<"assessLegalRisk">>,
     <<"healthCheck">>}

OtherNames == {<<"doTheThing">>, <<"asklegalquestion">>, <<"HealthCheck">>, <<>>}

Bodies ==
    {[NoParams EXCEPT !.action = Str(<<"askLegalQuestion">>), !.question = q,
                      !.documentContext = dc] :
        q \in {Str(Question), undefined}, dc \in {undefined, Str(<<>>), Str(Doc)}}
    \cup
    {[NoParams EXCEPT !.action = Str(<<"summarizeDocument">>), !.documentText = dt,
                      !.summaryType = ty, !.summaryLength = ln] :
        dt \in {Str(Doc), undefined}, ty \in {undefined, Str(<<"executive">>)},
        ln \in {undefined, Str(<<"short">>), Str(<<"tiny">>)}}
    \cup
    {[NoParams EXCEPT !.action = Str(<<"translateText">>), !.text = tx,
                      !.sourceLang = Str(<<"en">>), !.targetLang = Str(<<"hi">>)] :
        tx \in {Str(<<"a">>), Str(Doc), undefined}}
    \cup
    {[NoParams EXCEPT !.action = Str(<<"performSemanticSearch">>), !.query = q,
                      !.documentText = dt] :
        q \in {Str(Question), undefined}, dt \in {Str(Doc), undefined}}
    \cup
    {[NoParams EXCEPT !.action = Str(<<"compareDocuments">>), !.doc1Text = d1,
                      !.doc2Text = d2] :
        d1 \in {Str(Doc), undefined}, d2 \in {Str(OtherDoc), undefined}}
    \cup
    {[NoParams EXCEPT !.action = Str(<<"assessLegalRisk">>), !.documentText = dt] :
        dt \in {Str(Doc), undefined}}
    \cup
    {[NoParams EXCEPT !.action = a] :
        a \in {Str(<<"healthCheck">>), undefined} \cup {Str(n) : n \in OtherNames}}

Requests ==
    {[method |-> "POST", body |-> Obj(b)] : b \in Bodies}
    \cup {[method |-> "OPTIONS", body |-> undefined],
          [method |-> "GET", body |-> undefined]}

Entity(name, type) == [name |-> Str(name), type |-> Str(<<type>>)]
Org == Entity(<<"Acme">>, "ORGANIZATION")
Person == Entity(<<"Rao">>, "PERSON")
Place == Entity(<<"Delhi">>, "LOCATION")

NlpOutcomes ==
    {[kind |-> "neterr"], [kind |-> "http"]}
    \cup {[kind |-> "ok", data |-> [entities |-> e, documentSentiment |-> s]] :
            e \in {undefined, Arr(<<Place>>), Arr(<<Org, Person>>)},
            s \in {undefined, Obj([score |-> 8])}}

GemOutcomes ==
    {[ok |-> TRUE, text |-> <<"model text">>],
     [ok |-> TRUE, text |-> <<>>],
     [ok |-> FALSE, message |-> <<"fetch failed">>],
     [ok |-> FALSE, message |-> <<"quota exceeded">>]}

HfOutcomes ==
    {[kind |-> "neterr"],
     [kind |-> "okArray", data |-> <<[summary_text |-> Str(<<"bart summary">>)]>>],
     [kind |-> "okArray", data |-> <<>>],
     [kind |-> "okObject", data |-> [summary_text |-> undefined]]}

Translations(x) == [data |-> Obj([translations |-> <<[translatedText |-> x]>>])]

TrOutcomes ==
    {[kind |-> "neterr"], [kind |-> "http"], [kind |-> "badjson"],
     [kind |-> "ok", json |-> [data |-> undefined]],
     [kind |-> "ok", json |-> Translations(Str(<<"anuvad">>))],
     [kind |-> "ok", json |-> Translations(Str(<<" ", "anuvad">>
                                               \o Annotation(<<Org, Person>>)))]}

\* The services the case of `action` can call when the keys of c are set.
Consults(action, c) ==
    LET nlp == IF c.nlp THEN {"nlp"} ELSE {}
        hf == IF c.huggingface THEN {"hf"} ELSE {}
    IN CASE action = Str(<<"askLegalQuestion">>) -> {"gemini"} \cup nlp
         [] action = Str(<<"summarizeDocument">>) -> {"gemini"} \cup nlp \cup hf
         [] action = Str(<<"translateText">>) ->
              IF c.translate THEN {"translate"} \cup nlp ELSE {}
         [] action = Str(<<"performSemanticSearch">>) -> {"gemini"}
         [] action = Str(<<"compareDocuments">>) -> {"gemini"}
         [] action = Str(<<"assessLegalRisk">>) -> {"gemini"} \cup nlp
         [] OTHER -> {}

\* The answers one request can get: an answer is drawn for each service the
\* request can call; a service it cannot call is given no choice.
Oracles(rq, c) ==
    LET s == IF rq.body.t = "object" THEN Consults(rq.body.v.action, c) ELSE {}
    IN [nlp : IF "nlp" \in s THEN NlpOutcomes ELSE {[kind |-> "neterr"]},
        gem : IF "gemini" \in s THEN GemOutcomes
              ELSE {[ok |-> FALSE, message |-> <<"fetch failed">>]},
        hf : IF "hf" \in s THEN HfOutcomes ELSE {[kind |-> "neterr"]},
        tr : IF "translate" \in s THEN TrOutcomes ELSE {[kind |-> "neterr"]}]

Configs ==
    [gemini : BOOLEAN, translate : BOOLEAN, documentAI : BOOLEAN,
     nlp : BOOLEAN, huggingface : BOOLEAN]

-----------------------------------------------------------------------------
(* The backend, one request after the other.  A handler runs from its      *)
(* first line to its response in one step: between its awaits it shares    *)
(* nothing with another request but the module-level model, which is       *)
(* assigned before the first await.                                        *)

MaxClock == 1

InitRest ==
    /\ inflight = {}
    /\ memo = {} /\ runs = <<>>
    /\ net = {} /\ done = <<>> /\ invoked = <<>>
    /\ uploadedFiles = <<>> /\ fileList = <<>>
    /\ selector = <<[value |-> "", text |-> "Select a document to view..."]>>
    /\ alerts = <<>> /\ uploads = <<>> /\ removals = <<>> /\ timers = <<>>
    /\ progressVisible = FALSE /\ uiNow = 0
    /\ progressShown = [width |-> 0, percent |-> 0] /\ completions = <<>>
    /\ chatMessages = <<>> /\ chatTimers = <<>> /\ chatEvents = <<>>
    /\ trIn = undefined /\ trOut = undefined

InitBackend ==
    /\ cfg \in Configs
    /\ model = FALSE
    /\ now = 0
    /\ pc = "idle"
    /\ req = [method |-> "none", body |-> undefined]
    /\ resp = <<>>
    /\ ops = <<>>
    /\ calls = <<>>

Init == InitBackend /\ InitRest

\* a request arrives
Receive ==
    /\ pc = "idle"
    /\ \E rq \in Requests : req' = rq
    /\ pc' = "received"
    /\ resp' = <<>> /\ ops' = <<>> /\ calls' = <<>>
    /\ UNCHANGED <<cfg, model, now, inflight>>
    /\ UNCHANGED <<detVars, clientVars, uploadVars, trVars>>

\* the handler runs on it
Handle ==
    /\ pc = "received"
    /\ \E o \in Oracles(req, cfg), t2 \in {now, IF now < MaxClock THEN now + 1 ELSE now} :
         LET h == handler(req, cfg, model, now, t2, o)
         IN /\ resp' = h.resp
            /\ ops' = h.ops
            /\ calls' = h.calls
            /\ model' = h.model
            /\ now' = t2
    /\ pc' = "idle"
    /\ UNCHANGED <<cfg, req, inflight>>
    /\ UNCHANGED <<detVars, clientVars, uploadVars, trVars>>

Next == Receive \/ Handle

\* every call made is to a service whose answer was drawn for the request
CallsWithinConsults ==
    \A i \in 1..Len(calls) : calls[i].svc \in Consults(req.body.v.action, cfg)

Spec == Init /\ [][Next]_vars

-----------------------------------------------------------------------------
(* translateText on texts: every reply of the Translate service up to a    *)
(* length, over the tokens the clean-up pattern tells apart.               *)

MaxReplyLen == 4

NoteTokens == {"a", "[", "Legal entities:", "]", "\n"}

RECURSIVE TextsUpTo(_)
TextsUpTo(n) ==
    IF n = 0 THEN {<<>>}
    ELSE LET shorter == TextsUpTo(n - 1)
         IN shorter \cup {Append(s, tok) : s \in shorter, tok \in NoteTokens}

\* the texts to translate: longer than 100 characters but for the last
TrTexts ==
    {<<"PAD">>,
     <<"PAD", "Legal entities:", "a">>,
     <<"PAD", "[", "Legal entities:", "a", "]">>,
     <<"a">>}

BrokenOrg == Entity(<<"Acme", "\n", "Ltd">>, "ORGANIZATION")
BracketOrg == Entity(<<"Acme", "]", "Ltd">>, "ORGANIZATION")

TrEntityLists ==
    {<<>>, <<Place>>, <<Org>>, <<Org, Place, Person>>, <<BrokenOrg>>, <<BracketOrg, Org>>}

\* what the Translate service can answer to q
TrReplies(q) ==
    {[kind |-> "neterr"], [kind |-> "http"], [kind |-> "badjson"],
     [kind |-> "ok", json |-> [data |-> undefined]],
     [kind |-> "ok", json |-> Translations(undefined)],
     [kind |-> "ok", json |-> Translations(q)]}
    \cup {[kind |-> "ok", json |-> Translations(Str(s))] : s \in TextsUpTo(MaxReplyLen)}

AllKeys ==
    [gemini |-> TRUE, translate |-> TRUE, documentAI |-> TRUE, nlp |-> TRUE,
     huggingface |-> TRUE]

\* the text the operation sends to the Translate service
ContextualText(text, entities, c) ==
    IF c.nlp /\ StrLen(text) > 100 /\ SelectSeq(entities, IsParty) # <<>>
    THEN text \o Annotation(SelectSeq(entities, IsParty))
    ELSE text

TrNlpOutcomes ==
    {[kind |-> "neterr"]}
    \cup {[kind |-> "ok",
           data |-> [entities |-> Arr(e), documentSentiment |-> undefined]] :
             e \in TrEntityLists}

InitTr ==
    /\ cfg \in {AllKeys, [AllKeys EXCEPT !.nlp = FALSE]}
    /\ model = FALSE /\ now = 0 /\ pc = "idle"
    /\ req = [method |-> "none", body |-> undefined]
    /\ resp = <<>> /\ ops = <<>> /\ calls = <<>>
    /\ InitRest

\* translateText is called: the text, and the answers the two services
\* are going to give
TranslateCalled ==
    /\ trIn = undefined
    /\ \E text \in TrTexts, nlp \in TrNlpOutcomes :
         \E reply \in TrReplies(Str(ContextualText(
                          text,
                          IF nlp.kind = "ok" THEN nlp.data.entities.v ELSE <<>>,
                          cfg))) :
            trIn' = [text |-> text, nlp |-> nlp, reply |-> reply]
    /\ UNCHANGED <<backendVars, detVars, clientVars, uploadVars, trOut>>

\* translateText runs to its end
TranslateOnTexts ==
    /\ trIn # undefined
    /\ trOut = undefined
    /\ LET o == [nlp |-> trIn.nlp,
                 gem |-> [ok |-> FALSE, message |-> <<"fetch failed">>],
                 hf |-> [kind |-> "neterr"],
                 tr |-> trIn.reply]
       IN trOut' = translateText(Str(trIn.text), Str(<<"en">>), Str(<<"hi">>),
                                 availableServices(cfg), o)
    /\ UNCHANGED <<backendVars, detVars, clientVars, uploadVars, trIn>>

NextTr == TranslateCalled \/ TranslateOnTexts

SpecTranslate == InitTr /\ [][NextTr]_vars

-----------------------------------------------------------------------------
(* The page script (src/main.js): upload staging.  A File is a record      *)
(* [name, size, type]; Date.now() + Math.random() is the fixed-point       *)
(* number t * RandomGrain + r, r being the random draw in units of         *)
(* 1/RandomGrain.                                                          *)

MaxFiles == 2

RandomGrain == 2

MaxRemovals == 1

Small   == [name |-> "a.pdf", size |-> 1024, type |-> "application/pdf"]
AtLimit == [name |-> "b.pdf", size |-> 52428800, type |-> "application/pdf"]
Over    == [name |-> "c.pdf", size |-> 52428801, type |-> "application/pdf"]

Tiny    == [name |-> "d.txt", size |-> 0, type |-> ""]

Files == {Tiny, Small, AtLimit, Over}

\* event.target.files: any list of files, the empty one included
Batches == UNION {[1..n -> Files] : n \in 0..MaxFiles}

\* Number.prototype.toFixed(1) of bytes / unit, unit a power of two: the
\* quotient is exact, and a tie goes to the larger value
toFixed1(bytes, unit) ==
    LET tenths == (bytes * 20 + unit) \div (2 * unit)
    IN <<ToString(tenths \div 10), ".", ToString(tenths % 10)>>

formatFileSize(bytes) ==
    IF bytes < 1024 THEN <<ToString(bytes), " B">>
    ELSE IF bytes < 1024 * 1024 THEN toFixed1(bytes, 1024) \o <<" KB">>
    ELSE toFixed1(bytes, 1024 * 1024) \o <<" MB">>

\* a number as the string a template literal or a DOM attribute makes of it
NumberToString(n) == ToString(n)

\* the number a string is compared as by == and !=
StringToNumber(s) ==
    CHOOSE n \in 0..((MaxClock + 1) * RandomGrain) : NumberToString(n) = s

\* file.size >= 50 * 1024 * 1024: the file at the limit is rejected too
ExceedsLimit_atLimit(file) == file.size >= 50 * 1024 * 1024

\* the test of line 48
ExceedsLimit(file) == file.size > 50 * 1024 * 1024

\* the div appended to #file-list: its two buttons carry the id
addFileToList(list, fileItem) ==
    Append(list, [process |-> NumberToString(fileItem.id),
                  remove  |-> NumberToString(fileItem.id)])

Placeholder == [value |-> "", text |-> "Select a document to view..."]

updateDocumentSelector(staged) ==
    <<Placeholder>>
    \o [i \in 1..Len(staged) |->
           [value |-> NumberToString(staged[i].id), text |-> staged[i].name]]

\* the body of files.forEach from file i on; ts[i] and rs[i] are what
\* Date.now() and Math.random() give for file i, and uiNow is the clock as
\* it was last read
RECURSIVE forEachFile(_, _, _, _, _)
forEachFile(i, files, ts, rs, st) ==
    IF i > Len(files) THEN st
    ELSE LET file == files[i]
         IN IF ExceedsLimit(file)
            THEN forEachFile(i + 1, files, ts, rs,
                     [st EXCEPT !.alerts =
                         Append(@, <<"File ", file.name, " exceeds 50MB limit">>)])
            ELSE LET fileItem == [name |-> file.name,
                                  size |-> formatFileSize(file.size),
                                  type |-> file.type,
                                  file |-> file,
                                  id   |-> ts[i] * RandomGrain + rs[i]]
                     staged == Append(st.uploadedFiles, fileItem)
                 IN forEachFile(i + 1, files, ts, rs,
                        [st EXCEPT !.uploadedFiles = staged,
                                   !.fileList = addFileToList(@, fileItem),
                                   !.selector = updateDocumentSelector(staged),
                                   !.uiNow = ts[i]])

\* setInterval of a new run, which starts at progress 0
simulateProcessing(running) == Append(running, [progress |-> 0, cleared |-> FALSE])

\* what the upload events so far count for: an event counts for its files,
\* an event without files for one
RECURSIVE Counted(_)
Counted(events) ==
    IF events = <<>> THEN 0
    ELSE (IF Len(Head(events)) = 0 THEN 1 ELSE Len(Head(events)))
         + Counted(Tail(events))

Clocks(n) ==
    {ts \in [1..n -> uiNow..MaxClock] : \A i \in 1..(n - 1) : ts[i] <= ts[i + 1]}

\* the states files.forEach can leave, one for each way the clock and the
\* random draws can go
Staged(files) ==
    {forEachFile(1, files, ts, rs,
         [uploadedFiles |-> uploadedFiles, fileList |-> fileList,
          selector |-> selector, alerts |-> alerts, uiNow |-> uiNow]) :
       ts \in Clocks(Len(files)), rs \in [1..Len(files) -> 0..(RandomGrain - 1)]}

handleFileUpload(files) ==
    /\ Counted(Append(uploads, files)) <= MaxFiles
    /\ \E st \in Staged(files) :
         /\ uploadedFiles' = st.uploadedFiles
         /\ fileList' = st.fileList
         /\ selector' = st.selector
         /\ alerts' = st.alerts
         /\ uiNow' = st.uiNow
    /\ IF Len(files) > 0
       THEN progressVisible' = TRUE /\ timers' = simulateProcessing(timers)
       ELSE UNCHANGED <<progressVisible, timers>>
    /\ uploads' = Append(uploads, files)
    /\ UNCHANGED <<removals, progressShown, completions, chatVars>>
    /\ UNCHANGED <<backendVars, detVars, clientVars, trVars>>

IdIsNot_strict(fileId, file) == TRUE

\* file.id != fileId, a number against the string of the button
IdIsNot(fileId, file) == file.id # StringToNumber(fileId)

RECURSIVE Render(_)
Render(staged) ==
    IF staged = <<>> THEN <<>>
    ELSE addFileToList(Render(SubSeq(staged, 1, Len(staged) - 1)),
                       staged[Len(staged)])

RECURSIVE Filter(_, _)
Filter(staged, fileId) ==
    IF staged = <<>> THEN <<>>
    ELSE (IF IdIsNot(fileId, Head(staged)) THEN <<Head(staged)>> ELSE <<>>)
         \o Filter(Tail(staged), fileId)

removeFile(fileId) ==
    /\ Len(removals) < MaxRemovals
    /\ removals' = Append(removals, fileId)
    /\ uploadedFiles' = Filter(uploadedFiles, fileId)
    /\ fileList' = Render(uploadedFiles')
    /\ selector' = updateDocumentSelector(uploadedFiles')
    /\ UNCHANGED <<alerts, uploads, uiNow, progressVars, chatVars>>
    /\ UNCHANGED <<backendVars, detVars, clientVars, trVars>>

\* the ids the remove buttons on the page carry
RemoveButtons == {fileList[i].remove : i \in 1..Len(fileList)}

FileUploaded == \E files \in Batches : handleFileUpload(files)

\* the ids removeFile can be called with: those of the buttons on the page
\* and, the function being global, one more, which a staged file may have
\* or not
RemoveIds == RemoveButtons \cup {NumberToString(0)}

FileRemoved == \E fileId \in RemoveIds : removeFile(fileId)

InitUpload ==
    /\ cfg = AllKeys
    /\ model = FALSE /\ now = 0 /\ pc = "idle"
    /\ req = [method |-> "none", body |-> undefined]
    /\ resp = <<>> /\ ops = <<>> /\ calls = <<>>
    /\ InitRest

NextUpload == FileUploaded \/ FileRemoved

SpecUpload == InitUpload /\ [][NextUpload]_vars

-----------------------------------------------------------------------------
(* summarizeDocument against a deterministic (mocked) upstream: a service  *)
(* that was sent an argument before gives the answer it gave then.         *)

MaxRuns == 2

\* the arguments of a call: documentText, summaryType, summaryLength
DetInputs ==
    {<<Str(Doc), undefined, undefined>>,
     <<Str(Doc), Str(<<"executive">>), Str(<<"short">>)>>,
     <<Str(Doc), Str(<<"executive">>), undefined>>,
     <<Str(OtherDoc), undefined, undefined>>,
     <<undefined, undefined, undefined>>}

DetConfigs ==
    {[AllKeys EXCEPT !.nlp = n, !.huggingface = h] : n \in BOOLEAN, h \in BOOLEAN}

\* what the mocked services can be programmed to answer
DetOracles(c) ==
    [nlp : IF c.nlp
           THEN {[kind |-> "neterr"],
                 [kind |-> "ok", data |-> [entities |-> Arr(<<Org, Person>>),
                                           documentSentiment |-> Obj([score |-> 8])]]}
           ELSE {[kind |-> "neterr"]},
     gem : {[ok |-> TRUE, text |-> <<"model text">>],
            [ok |-> TRUE, text |-> <<"other model text">>],
            [ok |-> TRUE, text |-> <<>>],
            [ok |-> FALSE, message |-> <<"fetch failed">>]},
     hf : IF c.huggingface
          THEN {[kind |-> "neterr"],
                [kind |-> "okArray", data |-> <<[summary_text |-> Str(<<"bart summary">>)]>>],
                [kind |-> "okObject", data |-> [summary_text |-> undefined]]}
          ELSE {[kind |-> "neterr"]},
     tr : {[kind |-> "neterr"]}]

Answer(o, svc) ==
    CASE svc = "gemini" -> o.gem
      [] svc = "nlp" -> o.nlp
      [] svc = "hf" -> o.hf
      [] OTHER -> o.tr

\* the answers of o to the calls of log are those the mock gave before
Deterministic(o, log) ==
    \A i \in 1..Len(log) : \A m \in memo :
        (m.svc = log[i].svc /\ m.arg = log[i].arg) => m.answer = Answer(o, log[i].svc)

Recorded(o, log) ==
    {[svc |-> log[i].svc, arg |-> log[i].arg, answer |-> Answer(o, log[i].svc)] :
        i \in 1..Len(log)}

InitDet ==
    /\ cfg \in DetConfigs
    /\ model = TRUE /\ now = 0 /\ pc = "idle"
    /\ req = [method |-> "none", body |-> undefined]
    /\ resp = <<>> /\ ops = <<>> /\ calls = <<>>
    /\ InitRest

\* one call of summarizeDocument
SummarizeCalled ==
    /\ Len(runs) < MaxRuns
    /\ \E in \in DetInputs, o \in DetOracles(cfg) :
         LET text == in[1]
             type == in[2]
             length == in[3]
             r == summarizeDocument(text, type, length, availableServices(cfg), o)
         IN /\ Deterministic(o, r.log)
            /\ memo' = memo \cup Recorded(o, r.log)
            /\ runs' = Append(runs, [documentText |-> text, summaryType |-> type,
                                     summaryLength |-> length, ret |-> r.ret,
                                     log |-> r.log])
    /\ UNCHANGED <<backendVars, clientVars, uploadVars, trVars>>

NextDet == SummarizeCalled

SpecDet == InitDet /\ [][NextDet]_vars

-----------------------------------------------------------------------------
(* The client dispatcher (src/api-integrations.js) in front of the backend. *)
(* A message of net is one invocation of _callServerless on its way:       *)
(* "sent" (the POST is out), "server" (the handler has it), "answered"     *)
(* (fetch has a result for it).                                            *)

MaxCalls == 2

\* JSON.stringify({ action, ...params }): a field that is undefined is left out
Stringify(obj) == Json(obj)

\* express.json(): req.body has the fields that were sent, any other reads
\* as undefined
ParseBody(text) ==
    [f \in DOMAIN NoParams |-> IF f \in DOMAIN text THEN text[f] ELSE undefined]

\* the wrappers of lines 70-92, and _callServerless called with other names
ClientCalls ==
    {[NoParams EXCEPT !.action = Str(<<"compareDocuments">>),
                      !.doc1Text = Str(Doc), !.doc2Text = undefined],
     [NoParams EXCEPT !.action = Str(<<"healthCheck">>)],
     [NoParams EXCEPT !.action = Str(<<"doTheThing">>)]}

ClientConfigs == {AllKeys, [AllKeys EXCEPT !.gemini = FALSE]}

Http(from, status, isJson, body) ==
    [kind |-> "http", from |-> from, status |-> status, json |-> isJson,
     body |-> body]

\* what fetch can give when the answer is not the handler's: a rejected
\* fetch, and responses of the server's middleware or of a proxy
ForeignResponses ==
    {[kind |-> "neterr"],
     Http("express", 413, FALSE, <<>>),
     Http("proxy", 200, TRUE, null),
     Http("proxy", 299, TRUE, [success |-> Bool(TRUE)]),
     Http("proxy", 200, TRUE, [success |-> Bool(FALSE)]),
     Http("proxy", 201, TRUE, [success |-> Bool(FALSE), error |-> Str(<<"busy">>)]),
     Http("proxy", 300, TRUE, [success |-> Bool(TRUE), data |-> Str(<<"moved">>)])}

Field(obj, f) == IF f \in DOMAIN obj THEN obj[f] ELSE undefined

Return(value) == [kind |-> "return", value |-> value]
Throw(message) == [kind |-> "throw", message |-> message]

\* without the test of data.success
callServerlessResult_noSuccessTest(response) ==
    IF response.kind = "neterr" THEN Throw(<<"Failed to fetch">>)
    ELSE IF ~(response.status \in 200..299) THEN Throw(<<"Serverless AI API error">>)
    ELSE IF ~response.json THEN Throw(<<"Unexpected end of JSON input">>)
    ELSE IF response.body = null
    THEN Throw(<<"Cannot read properties of null (reading 'success')">>)
    ELSE Return(Field(response.body, "data"))

\* lines 100-103 of _callServerless, on what fetch gave
callServerlessResult(response) ==
    IF response.kind = "neterr" THEN Throw(<<"Failed to fetch">>)
    ELSE IF ~(response.status \in 200..299) THEN Throw(<<"Serverless AI API error">>)
    ELSE IF ~response.json THEN Throw(<<"Unexpected end of JSON input">>)
    ELSE IF response.body = null
    THEN Throw(<<"Cannot read properties of null (reading 'success')">>)
    ELSE IF ~Truthy(Field(response.body, "success"))
    THEN Throw(IF Truthy(Field(response.body, "error"))
               THEN ToStr(Field(response.body, "error"))
               ELSE <<"Unknown AI error">>)
    ELSE Return(Field(response.body, "data"))

Invocations == Cardinality(net) + Len(done)

callServerless_deduplicated ==
    /\ Len(invoked) < MaxCalls
    /\ \E call \in ClientCalls :
         /\ net' = IF \E m \in net : m.call = call THEN net
                   ELSE net \cup {[id |-> Len(invoked) + 1, call |-> call,
                                   body |-> Stringify(call), at |-> "sent",
                                   response |-> undefined]}
         /\ invoked' = Append(invoked, call)
    /\ UNCHANGED <<backendVars, detVars, done, uploadVars, trVars>>

\* _callServerless up to its fetch: the POST goes out
callServerless ==
    /\ Invocations < MaxCalls
    /\ \E call \in ClientCalls :
         /\ net' = net \cup {[id |-> Invocations + 1, call |-> call,
                              body |-> Stringify(call), at |-> "sent",
                              response |-> undefined]}
         /\ invoked' = Append(invoked, call)
    /\ UNCHANGED <<backendVars, detVars, done, uploadVars, trVars>>

\* the request of an invocation reaches app.post('/api/legal-ai')
ServerReceives ==
    /\ pc = "idle"
    /\ \E m \in net :
         /\ m.at = "sent"
         /\ req' = [method |-> "POST", body |-> Obj(ParseBody(m.body))]
         /\ net' = (net \ {m}) \cup {[m EXCEPT !.at = "server"]}
    /\ pc' = "received"
    /\ resp' = <<>> /\ ops' = <<>> /\ calls' = <<>>
    /\ UNCHANGED <<cfg, model, now, inflight>>
    /\ UNCHANGED <<detVars, done, invoked, uploadVars, trVars>>

\* the handler runs on it and its response goes back
ServerResponds ==
    /\ pc = "received"
    /\ \E m \in net, o \in Oracles(req, cfg),
          t2 \in {now, IF now < MaxClock THEN now + 1 ELSE now} :
         LET h == handler(req, cfg, model, now, t2, o)
         IN /\ m.at = "server"
            /\ resp' = h.resp
            /\ ops' = h.ops
            /\ calls' = h.calls
            /\ model' = h.model
            /\ now' = t2
            /\ net' = (net \ {m})
                      \cup {[m EXCEPT !.at = "answered",
                                      !.response = Http("backend", h.resp[1].status,
                                                        h.resp[1].json, h.resp[1].body)]}
    /\ pc' = "idle"
    /\ UNCHANGED <<cfg, req, inflight>>
    /\ UNCHANGED <<detVars, done, invoked, uploadVars, trVars>>

\* the request is answered by something else than the handler, or fetch fails
AnsweredElsewhere ==
    /\ \E m \in net, r \in ForeignResponses :
         /\ m.at = "sent"
         /\ net' = (net \ {m}) \cup {[m EXCEPT !.at = "answered", !.response = r]}
    /\ UNCHANGED <<backendVars, detVars, done, invoked, uploadVars, trVars>>

\* _callServerless from its fetch on: it returns or throws
callServerlessEnds ==
    /\ \E m \in net :
         /\ m.at = "answered"
         /\ net' = net \ {m}
         /\ done' = Append(done, [id |-> m.id, call |-> m.call,
                                  response |-> m.response,
                                  outcome |-> callServerlessResult(m.response)])
    /\ UNCHANGED <<backendVars, detVars, invoked, uploadVars, trVars>>

InitClient ==
    /\ cfg \in ClientConfigs
    /\ model = FALSE /\ now = 0 /\ pc = "idle"
    /\ req = [method |-> "none", body |-> undefined]
    /\ resp = <<>> /\ ops = <<>> /\ calls = <<>>
    /\ InitRest

NextClient ==
    \/ callServerless
    \/ ServerReceives
    \/ ServerResponds
    \/ AnsweredElsewhere
    \/ callServerlessEnds

SpecClient == InitClient /\ [][NextClient]_vars

-----------------------------------------------------------------------------
(* The backend on two requests, one after the other, the answers of the    *)
(* services and the clock readings being kept with each result: runs[i] is *)
(* what the handler did on the i-th of the two.                            *)

StudyBodies ==
    {[NoParams EXCEPT !.action = Str(<<"askLegalQuestion">>),
                      !.question = Str(Question), !.documentContext = dc] :
        dc \in {undefined, Str(Doc)}}
    \cup
    {[NoParams EXCEPT !.action = Str(<<"summarizeDocument">>),
                      !.documentText = Str(Doc)]}
    \cup
    {[NoParams EXCEPT !.action = Str(<<"translateText">>), !.text = Str(Doc),
                      !.sourceLang = Str(<<"en">>), !.targetLang = Str(<<"hi">>)]}
    \cup
    {[NoParams EXCEPT !.action = Str(<<"performSemanticSearch">>),
                      !.query = Str(Question), !.documentText = dt] :
        dt \in {Str(Doc), undefined}}
    \cup
    {[NoParams EXCEPT !.action = Str(<<"compareDocuments">>),
                      !.doc1Text = Str(Doc), !.doc2Text = d2] :
        d2 \in {Str(OtherDoc), undefined}}
    \cup
    {[NoParams EXCEPT !.action = Str(<<"assessLegalRisk">>), !.documentText = dt] :
        dt \in {Str(Doc), undefined}}
    \cup
    {[NoParams EXCEPT !.action = a] :
        a \in {Str(<<"healthCheck">>), Str(<<"doTheThing">>)}}

StudyRequests == {[method |-> "POST", body |-> Obj(b)] : b \in StudyBodies}

StudyConfigs ==
    {AllKeys, [AllKeys EXCEPT !.nlp = FALSE], [AllKeys EXCEPT !.huggingface = FALSE],
     [AllKeys EXCEPT !.gemini = FALSE],
     [AllKeys EXCEPT !.nlp = FALSE, !.huggingface = FALSE]}

\* the answers a request of the study can get
StudyOracles(rq, c) ==
    LET s == Consults(rq.body.v.action, c)
    IN [nlp : IF "nlp" \in s
              THEN {[kind |-> "neterr"], [kind |-> "http"],
                    [kind |-> "ok", data |-> [entities |-> Arr(<<Org, Person>>),
                                              documentSentiment |-> Obj([score |-> 8])]]}
              ELSE {[kind |-> "neterr"]},
        gem : IF "gemini" \in s THEN GemOutcomes
              ELSE {[ok |-> FALSE, message |-> <<"fetch failed">>]},
        hf : IF "hf" \in s
             THEN {[kind |-> "neterr"],
                   [kind |-> "okArray", data |-> <<[summary_text |-> Str(<<"bart summary">>)]>>],
                   [kind |-> "okObject", data |-> [summary_text |-> undefined]]}
             ELSE {[kind |-> "neterr"]},
        tr : IF "translate" \in s
             THEN {[kind |-> "neterr"],
                   [kind |-> "ok", json |-> Translations(Str(<<"anuvad">>))],
                   [kind |-> "ok", json |-> Translations(Str(<<" ", "anuvad">>
                                                \o Annotation(<<Org, Person>>)))]}
             ELSE {[kind |-> "neterr"]}]

\* the handler runs on rq, the services answering as o says
HandledWith(rq, o, t2) ==
    LET h == handler(rq, cfg, model, now, t2, o)
    IN /\ req' = rq
       /\ resp' = h.resp
       /\ ops' = h.ops
       /\ calls' = h.calls
       /\ model' = h.model
       /\ now' = t2
       /\ runs' = Append(runs, [req |-> rq, answers |-> o, resp |-> h.resp,
                                ops |-> h.ops, calls |-> h.calls,
                                at |-> <<now, t2>>, initialised |-> model])
       /\ UNCHANGED <<cfg, pc, inflight, memo, clientVars, uploadVars, trVars>>

\* a request arrives and is handled: the first, or the second, which may
\* be the same as the first or another
RequestHandled ==
    /\ Len(runs) < 2
    /\ \E rq \in StudyRequests :
         \E o \in StudyOracles(rq, cfg),
            t2 \in {now, IF now < MaxClock THEN now + 1 ELSE now} :
              HandledWith(rq, o, t2)

InitRuns ==
    /\ cfg \in StudyConfigs
    /\ model = FALSE /\ now = 0 /\ pc = "idle"
    /\ req = [method |-> "none", body |-> undefined]
    /\ resp = <<>> /\ ops = <<>> /\ calls = <<>>
    /\ InitRest

NextRuns == RequestHandled

SpecRuns == InitRuns /\ [][NextRuns]_vars

-----------------------------------------------------------------------------
(* One request call by call.  The handler awaits every outbound call: a    *)
(* call starts when the one before it has returned, and the response is    *)
(* sent when the last one has.  The answers the services will give are     *)
(* drawn when the request arrives and kept in runs.                        *)

\* what the handler does on req with the answers drawn for it
Course == handler(req, cfg, model, now, now, runs[1].answers)

Awaited_not == TRUE

\* await: the caller goes on only when the call it made has returned
Awaited == inflight = {}

RequestArrives ==
    /\ pc = "idle" /\ runs = <<>>
    /\ \E rq \in StudyRequests :
         \E o \in StudyOracles(rq, cfg) :
            /\ req' = rq
            /\ runs' = <<[req |-> rq, answers |-> o]>>
    /\ pc' = "received"
    /\ resp' = <<>> /\ ops' = <<>> /\ calls' = <<>>
    /\ UNCHANGED <<cfg, model, now, inflight, memo, clientVars, uploadVars, trVars>>

\* the next outbound call of the request is sent
CallStarts ==
    /\ pc = "received"
    /\ Awaited
    /\ Len(calls) < Len(Course.calls)
    /\ calls' = Append(calls, Course.calls[Len(calls) + 1])
    /\ inflight' = inflight \cup {Len(calls) + 1}
    /\ UNCHANGED <<cfg, model, now, pc, req, resp, ops>>
    /\ UNCHANGED <<detVars, clientVars, uploadVars, trVars>>

\* a call returns, with a reply or with an error
CallReturns ==
    /\ pc = "received"
    /\ \E i \in inflight : inflight' = inflight \ {i}
    /\ UNCHANGED <<cfg, model, now, pc, req, resp, ops, calls>>
    /\ UNCHANGED <<detVars, clientVars, uploadVars, trVars>>

\* the handler sends its response
Responds ==
    /\ pc = "received"
    /\ Awaited
    /\ Len(calls) = Len(Course.calls)
    /\ resp' = Course.resp
    /\ ops' = Course.ops
    /\ model' = Course.model
    /\ pc' = "idle"
    /\ UNCHANGED <<cfg, now, req, calls, inflight>>
    /\ UNCHANGED <<detVars, clientVars, uploadVars, trVars>>

InitFlight ==
    /\ cfg \in StudyConfigs
    /\ model = FALSE /\ now = 0 /\ pc = "idle"
    /\ req = [method |-> "none", body |-> undefined]
    /\ resp = <<>> /\ ops = <<>> /\ calls = <<>>
    /\ InitRest

NextFlight == RequestArrives \/ CallStarts \/ CallReturns \/ Responds

SpecFlight == InitFlight /\ [][NextFlight]_vars

-----------------------------------------------------------------------------
(* The chat of the page (src/main.js, sendMessage).  The reply is the      *)
(* callback of a setTimeout of 1000 ms; callbacks set with the same delay  *)
(* run in the order they were set, so chatTimers is a queue.               *)

MaxSends == 3

\* what #chat-input can hold when a message is sent
ChatInputs == {<<>>, <<" ">>, <<"hi">>, <<" ", "bye", " ">>}

TypingIndicator == <<"<div class=\"typing-indicator\">...</div>">>

SimulatedReply == <<"This is a simulated AI response.">>

addMessageToChat_replace(chat, message, sender) ==
    <<[sender |-> sender, content |-> message]>>

\* chatMessages.appendChild(messageDiv)
addMessageToChat(chat, message, sender) ==
    Append(chat, [sender |-> sender, content |-> message])

\* the sends so far that got past the test of the empty message
Sends == Len(SelectSeq(chatEvents, LAMBDA e : e = "send"))

sendMessage(value) ==
    LET message == Trim(value)
    IN /\ Sends < MaxSends
       /\ IF message = <<>>
          THEN UNCHANGED chatVars
          ELSE /\ chatMessages' =
                     addMessageToChat(addMessageToChat(chatMessages, message, "user"),
                                      TypingIndicator, "ai")
               /\ chatTimers' = Append(chatTimers, SimulatedReply)
               /\ chatEvents' = Append(chatEvents, "send")
       /\ UNCHANGED <<uploadedFiles, fileList, selector, alerts, uploads, removals, uiNow,
                      progressVars>>
       /\ UNCHANGED <<backendVars, detVars, clientVars, trVars>>

MessageSent == \E value \in ChatInputs : sendMessage(value)

\* the callback of the oldest setTimeout runs
ReplyArrives ==
    /\ chatTimers # <<>>
    /\ chatMessages' = addMessageToChat(chatMessages, Head(chatTimers), "ai")
    /\ chatTimers' = Tail(chatTimers)
    /\ chatEvents' = Append(chatEvents, "reply")
    /\ UNCHANGED <<uploadedFiles, fileList, selector, alerts, uploads, removals, uiNow,
                   progressVars>>
    /\ UNCHANGED <<backendVars, detVars, clientVars, trVars>>

InitChat ==
    /\ cfg = AllKeys
    /\ model = FALSE /\ now = 0 /\ pc = "idle"
    /\ req = [method |-> "none", body |-> undefined]
    /\ resp = <<>> /\ ops = <<>> /\ calls = <<>>
    /\ InitRest

NextChat == MessageSent \/ ReplyArrives

SpecChat == InitChat /\ [][NextChat]_vars

-----------------------------------------------------------------------------
(* The page script (src/main.js): the progress bar.  A run's progress is   *)
(* kept in units of 1/RandomGrain, as the draws of Math.random() are.      *)

Full == 100 * RandomGrain

\* Math.round of a progress: a tie goes up
Round(progress) == (2 * progress + RandomGrain) \div (2 * RandomGrain)

\* progress += Math.random() * 15; if (progress > 100) progress = 100
Advance_uncapped(progress, r) == progress + 15 * r

Advance(progress, r) ==
    IF progress + 15 * r > Full THEN Full ELSE progress + 15 * r

\* showProcessingComplete, called by run k: #analysis-overview is set
showProcessingComplete(k) == Append(completions, k)

\* the callback of the interval of run k fires, r being its random draw
intervalFires(k, r) ==
    LET progress == Advance(timers[k].progress, r)
    IN /\ ~timers[k].cleared
       /\ progressShown' = [width |-> progress, percent |-> Round(progress)]
       /\ IF progress >= Full
          THEN /\ timers' = [timers EXCEPT ![k] = [progress |-> progress,
                                                   cleared |-> TRUE]]
               /\ completions' = showProcessingComplete(k)
          ELSE /\ timers' = [timers EXCEPT ![k] = [progress |-> progress,
                                                   cleared |-> FALSE]]
               /\ UNCHANGED completions
       /\ UNCHANGED <<uploadedFiles, fileList, selector, alerts, uploads, removals,
                      uiNow, progressVisible, chatVars>>
       /\ UNCHANGED <<backendVars, detVars, clientVars, trVars>>

IntervalFires ==
    \E k \in 1..Len(timers), r \in 0..(RandomGrain - 1) : intervalFires(k, r)

\* the selections of the upload events: none, a file that is rejected, two
\* files of which one is rejected, two files that are accepted
ProgressBatches == {<<>>, <<Over>>, <<Small, Over>>, <<Small, Small>>}

FilesSelected == \E files \in ProgressBatches : handleFileUpload(files)

InitProgress == InitUpload

NextProgress == FilesSelected \/ IntervalFires

SpecProgress == InitProgress /\ [][NextProgress]_vars

-----------------------------------------------------------------------------
(* Properties of the backend.                                              *)

\* the handler has run on req to its end
Handled == pc = "idle" /\ req.method # "none"

HasBody == req.body.t = "object"

ActionIs(name) == HasBody /\ req.body.v.action = Str(<<name>>)

Recognized == HasBody /\ req.body.v.action \in {Str(n) : n \in ActionNames}

Operations ==
    {"askLegalQuestion", "summarizeDocument", "translateText",
     "performSemanticSearch", "compareDocuments", "assessLegalRisk"}

\* the upstream service an operation's result comes from
MainService(op) == IF op = "translateText" THEN "translate" ELSE "gemini"

\* the call of the operation to its upstream service was made and failed
UpstreamFailed ==
    /\ Len(ops) = 1 /\ ops[1] \in Operations
    /\ \E i \in 1..Len(calls) :
          calls[i].svc = MainService(ops[1]) /\ ~calls[i].ok

OrDefault(x, d) == IF x.t = "undefined" THEN Str(d) ELSE x

\* the fallback text of a text operation for the parameters of req
FallbackText(op, p) ==
    CASE op = "askLegalQuestion" -> _getFallbackLegalResponse(p.question)
      [] op = "summarizeDocument" ->
           _getFallbackSummary(OrDefault(p.summaryType, <<"comprehensive">>),
                               OrDefault(p.summaryLength, <<"medium">>))
      [] op = "translateText" ->
           _getFallbackTranslation(p.text, p.sourceLang, p.targetLang)
      [] op = "performSemanticSearch" -> _getFallbackSearchResults(p.query)
      [] OTHER -> FallbackComparison

IsFallback(op, p, data) ==
    IF op = "assessLegalRisk"
    THEN /\ data.t = "object"
         /\ DOMAIN data.v = {"error", "details"}
         /\ data.v.error = Str(<<"Risk assessment failed">>)
         /\ data.v.details.t = "string"
    ELSE data = Str(FallbackText(op, p))

SuccessEnvelope(r) ==
    /\ r.status = 200 /\ r.json
    /\ DOMAIN r.body = {"success", "data", "timestamp"}
    /\ r.body.success = Bool(TRUE)

FailureEnvelope(r) ==
    /\ r.status = 500 /\ r.json
    /\ DOMAIN r.body = {"success", "error", "timestamp"}
    /\ r.body.success = Bool(FALSE)

\* C1: when the call of one of the six operations to its upstream service
\* fails, the handler answers with one success envelope (status 200,
\* success true) whose data is the fallback of that operation.
C1_FallbackOnUpstreamFailure ==
    (Handled /\ UpstreamFailed) =>
        /\ Len(resp) = 1
        /\ SuccessEnvelope(resp[1])
        /\ IsFallback(ops[1], req.body.v, resp[1].body.data)

C1_Witness ==
    /\ Handled /\ UpstreamFailed
    /\ ops = <<"assessLegalRisk">>
    /\ Len(calls) = 2
    /\ SuccessEnvelope(resp[1])
    /\ resp[1].body.data.v.details =
           Str(<<"Gemini API error: ", "quota exceeded">>)

\* the request names an action that is none of the seven
UnknownActionRequest ==
    Handled /\ req.method # "OPTIONS" /\ HasBody /\ ~Recognized

\* C2 as stated: every request with an unrecognized action is answered with
\* a failure envelope whose error is "Unknown action: <name>", and nothing
\* is executed.
C2_Original ==
    UnknownActionRequest =>
        /\ Len(resp) = 1 /\ FailureEnvelope(resp[1])
        /\ resp[1].body.error = Str(<<"Unknown action: ">> \o ToStr(req.body.v.action))
        /\ ops = <<>> /\ calls = <<>>

\* C2 (amended): a request with an unrecognized action executes no operation
\* and no upstream call and is answered with a failure envelope (status 500,
\* success false); its error is "Unknown action: <name>" when the Gemini key
\* is configured and the missing-key message when it is not.
C2_UnknownAction ==
    UnknownActionRequest =>
        /\ Len(resp) = 1 /\ FailureEnvelope(resp[1])
        /\ resp[1].body.error =
              (IF cfg.gemini
               THEN Str(<<"Unknown action: ">> \o ToStr(req.body.v.action))
               ELSE Str(<<"GEMINI_API_KEY environment variable is required">>))
        /\ ops = <<>> /\ calls = <<>>

C2_Witness ==
    /\ UnknownActionRequest /\ cfg.gemini
    /\ req.body.v.action = Str(<<"doTheThing">>)
    /\ resp[1].body.error = Str(<<"Unknown action: ", "doTheThing">>)

\* C5 as stated: every healthCheck request returns success true with the
\* availability record and makes no call.
C5_Original ==
    (Handled /\ req.method # "OPTIONS" /\ ActionIs("healthCheck")) =>
        /\ Len(resp) = 1 /\ SuccessEnvelope(resp[1]) /\ calls = <<>>

\* C5 (amended): with the Gemini key configured, a healthCheck request
\* returns success true with the record {status: 'healthy', services,
\* timestamp}, the flags of services being exactly the keys configured, and
\* makes no outbound call; without the key it is answered with the failure
\* envelope, and makes no outbound call either.
C5_HealthCheck ==
    (Handled /\ req.method # "OPTIONS" /\ ActionIs("healthCheck")) =>
        /\ Len(resp) = 1 /\ calls = <<>>
        /\ IF cfg.gemini
           THEN /\ SuccessEnvelope(resp[1])
                /\ resp[1].body.data.t = "object"
                /\ DOMAIN resp[1].body.data.v = {"status", "services", "timestamp"}
                /\ resp[1].body.data.v.status = Str(<<"healthy">>)
                /\ resp[1].body.data.v.timestamp.t = "string"
                /\ resp[1].body.data.v.services =
                      Obj([ai |-> <<"gemini">>, nlp |-> cfg.nlp,
                           documentAI |-> cfg.documentAI,
                           translation |-> cfg.translate,
                           huggingface |-> cfg.huggingface])
           ELSE FailureEnvelope(resp[1])

C5_Witness ==
    /\ Handled /\ ActionIs("healthCheck") /\ ops = <<"healthCheck">>
    /\ cfg.translate /\ ~cfg.documentAI
    /\ SuccessEnvelope(resp[1])
    /\ resp[1].body.data.v.services.v.translation

\* C7: every JSON response sent is a well-formed envelope: a boolean success
\* and a timestamp; with status 200, success true, data and no error; or
\* with status 500, success false, error and no data.
C7_Envelope ==
    \A i \in 1..Len(resp) :
        resp[i].json =>
            /\ resp[i].body.success.t = "boolean"
            /\ resp[i].body.timestamp.t = "string"
            /\ IF resp[i].body.success.v
               THEN /\ resp[i].status = 200
                    /\ DOMAIN resp[i].body = {"success", "data", "timestamp"}
               ELSE /\ resp[i].status = 500
                    /\ DOMAIN resp[i].body = {"success", "error", "timestamp"}
                    /\ resp[i].body.error.t = "string"

C7_Witness ==
    /\ Handled /\ Len(resp) = 1 /\ FailureEnvelope(resp[1])
    /\ HasBody /\ cfg.gemini

\* C10 as stated: every non-OPTIONS request with a recognized action
\* executes exactly one case of the switch and sends exactly one response.
C10_Original ==
    (Handled /\ req.method # "OPTIONS" /\ Recognized) =>
        Len(ops) = 1 /\ Len(resp) = 1

\* C10 (amended): every non-OPTIONS request with a recognized action sends
\* exactly one response; with the Gemini key configured it executes exactly
\* one case of the switch, the case of its action, and without the key it
\* executes none.
C10_OneOperationOneResponse ==
    (Handled /\ req.method # "OPTIONS" /\ Recognized) =>
        /\ Len(resp) = 1
        /\ IF cfg.gemini
           THEN Len(ops) = 1 /\ Str(<<ops[1]>>) = req.body.v.action
           ELSE ops = <<>>

C10_Witness ==
    /\ Handled /\ ActionIs("summarizeDocument") /\ cfg.gemini
    /\ ops = <<"summarizeDocument">> /\ Len(resp) = 1 /\ Len(calls) = 3

-----------------------------------------------------------------------------
(* Properties of translateText.                                            *)

Contains(s, tok) == \E i \in 1..Len(s) : s[i] = tok

TrRan == trOut # undefined

\* translateText appended a note to the text it sent for translation
TrAppended ==
    /\ TrRan
    /\ \E i \in 1..Len(trOut.log) :
          /\ trOut.log[i].svc = "translate"
          /\ trOut.log[i].arg # Str(trIn.text)
          /\ Contains(trOut.log[i].arg.v, "Legal entities:")

TrFellBack ==
    trOut.ret = Str(_getFallbackTranslation(Str(trIn.text), Str(<<"en">>), Str(<<"hi">>)))

\* the text the service answered with
TrReplyText == trIn.reply.json.data.v.translations[1].translatedText.v

\* occurrence i of "Legal entities:" lies inside a complete one-line note:
\* a "[" "Legal entities:" before it, closed by a "]" after it, with no
\* other "]" and no line break between the opening and that "]"
Covered(s, i) ==
    \E j \in 1..(i - 1), k \in (i + 1)..Len(s) :
        /\ s[j] = "[" /\ s[j + 1] = "Legal entities:"
        /\ s[k] = "]"
        /\ \A m \in (j + 2)..(k - 1) : s[m] \notin {"]", "\n"}

HasLooseMarker(s) ==
    \E i \in 1..Len(s) : s[i] = "Legal entities:" /\ ~Covered(s, i)

\* C3 as stated: when a note was appended, the returned string never
\* contains "Legal entities:".
C3_Original ==
    TrAppended => ~Contains(trOut.ret.v, "Legal entities:")

\* What the clean-up of translateText does achieve (C3 does not hold): when
\* a note was appended, the returned string contains "Legal entities:"
\* exactly when, on the fallback path, the input text
\* contains it or, on the success path, the reply of the service has an
\* occurrence of it outside every complete one-line "[Legal entities: ...]"
\* note.
C3_NoteStripped ==
    TrAppended =>
        (Contains(trOut.ret.v, "Legal entities:") <=>
            IF TrFellBack THEN Contains(trIn.text, "Legal entities:")
            ELSE HasLooseMarker(TrReplyText))

\* the service repeats the annotated text and the note is removed from it
C3_Witness ==
    /\ TrAppended /\ ~TrFellBack
    /\ trIn.text = <<"PAD">>
    /\ TrReplyText = <<"PAD">> \o Annotation(<<Org, Person>>)
    /\ trOut.ret = Str(<<"PAD">>)


-----------------------------------------------------------------------------
(* Upload staging.                                                         *)

Ceiling == 52428800

WithinCeiling(file) == file.size <= Ceiling

FilesOf(staged) == [i \in 1..Len(staged) |-> staged[i].file]

\* C4: an upload event appends to uploadedFiles the files of its batch that
\* are at or below 52428800 bytes, each exactly once and in the order of the
\* batch, whatever files of the batch were rejected, and nothing else; no
\* file larger than 52428800 bytes is ever in uploadedFiles.
C4_SizeCeiling ==
    [][Len(uploads') > Len(uploads) =>
         /\ FilesOf(uploadedFiles')
              = FilesOf(uploadedFiles) \o SelectSeq(uploads'[Len(uploads')], WithinCeiling)
         /\ \A i \in 1..Len(uploadedFiles') : WithinCeiling(uploadedFiles'[i].file)]_vars

\* a batch whose first file is rejected and whose second file, at the
\* ceiling, is staged
C4_Witness ==
    /\ uploads = << <<Over, AtLimit>> >>
    /\ FilesOf(uploadedFiles) = <<AtLimit>>
    /\ Len(alerts) = 1

-----------------------------------------------------------------------------
(* Idempotence of summarizeDocument.                                       *)

SameInputs(a, b) ==
    /\ a.documentText = b.documentText
    /\ a.summaryType = b.summaryType
    /\ a.summaryLength = b.summaryLength

\* C6: two calls of summarizeDocument with identical documentText,
\* summaryType and summaryLength against a deterministic upstream return
\* identical output, whichever services are configured.
C6_Idempotent ==
    \A i \in 1..Len(runs), j \in 1..Len(runs) :
        SameInputs(runs[i], runs[j]) => runs[i].ret = runs[j].ret

\* the same inputs were summarized twice, the upstream model being called
\* both times and answering with a text of its own
C6_Witness ==
    /\ Len(runs) >= 2
    /\ SameInputs(runs[1], runs[2])
    /\ runs[1].ret = Str(<<"other model text">>)
    /\ \E k \in 1..Len(runs[2].log) : runs[2].log[k].svc = "gemini"

-----------------------------------------------------------------------------
(* The client dispatcher.                                                  *)

Is2xx(r) == r.kind = "http" /\ r.status >= 200 /\ r.status <= 299

IsEnvelope(r) == r.kind = "http" /\ r.json /\ r.body # null

SuccessIs(r, b) ==
    IsEnvelope(r) /\ "success" \in DOMAIN r.body /\ r.body.success = Bool(b)

DataOf(r) == IF "data" \in DOMAIN r.body THEN r.body.data ELSE undefined

\* C8: _callServerless returns a value only when the response is 2xx and
\* the envelope's success is true, and the value is then the envelope's
\* data; on every non-2xx response and on every envelope with success:false
\* it throws.
C8_DataOnlyOnSuccess ==
    \A i \in 1..Len(done) :
        LET r == done[i].response
            out == done[i].outcome
        IN /\ out.kind = "return" =>
                 Is2xx(r) /\ SuccessIs(r, TRUE) /\ out.value = DataOf(r)
           /\ (r.kind = "http" /\ ~Is2xx(r)) => out.kind = "throw"
           /\ SuccessIs(r, FALSE) => out.kind = "throw"

\* the data of the backend's 2xx success envelope was returned, and the
\* backend's failure envelope, which is not 2xx, made the dispatcher throw
C8_Witness ==
    \E i \in 1..Len(done), j \in 1..Len(done) :
        /\ done[i].outcome.kind = "return" /\ done[i].response.from = "backend"
        /\ done[i].outcome.value.t = "string"
        /\ SuccessIs(done[j].response, FALSE) /\ ~Is2xx(done[j].response)
        /\ done[j].outcome.kind = "throw"

FailureEnvelopeOfBackend(r) ==
    /\ r.kind = "http" /\ r.from = "backend"
    /\ SuccessIs(r, FALSE)
    /\ "error" \in DOMAIN r.body /\ r.body.error.t = "string"

\* C9: for every failure envelope the backend produces, the error the client
\* dispatcher raises carries the envelope's error string.
C9_Original ==
    \A i \in 1..Len(done) :
        FailureEnvelopeOfBackend(done[i].response) =>
            /\ done[i].outcome.kind = "throw"
            /\ done[i].outcome.message = done[i].response.body.error.v

-----------------------------------------------------------------------------
(* The missing credential.                                                 *)

MissingKeyMessage == <<"GEMINI_API_KEY environment variable is required">>

\* req was answered with the failure envelope that reports the missing key
AnsweredMissingKey ==
    /\ Len(resp) = 1 /\ FailureEnvelope(resp[1])
    /\ resp[1].body.error = Str(MissingKeyMessage)

\* C11 as stated: the missing credential stops the backend at startup, so
\* no request is ever answered with an error caused by it.
C11_Original == Handled => ~AnsweredMissingKey

\* C11 (amended): the missing credential does not stop the backend, which
\* accepts requests all the same; it is reported per request: a non-OPTIONS
\* request is answered with the error "GEMINI_API_KEY environment variable
\* is required" exactly when the credential is not configured.
C11_ReportedPerRequest ==
    (Handled /\ req.method # "OPTIONS") => (AnsweredMissingKey <=> ~cfg.gemini)

C11_Witness ==
    /\ Handled /\ ~cfg.gemini /\ ActionIs("askLegalQuestion")
    /\ AnsweredMissingKey /\ ~model

\* C12: without the credential every non-OPTIONS request, healthCheck
\* included, is answered with one failure envelope (status 500, success
\* false), and no operation, fallback or outbound call is executed.
C12_FatalToRequest ==
    (Handled /\ req.method # "OPTIONS" /\ ~cfg.gemini) =>
        /\ Len(resp) = 1 /\ FailureEnvelope(resp[1])
        /\ resp[1].body.error.t = "string"
        /\ ops = <<>> /\ calls = <<>>

C12_Witness ==
    /\ Handled /\ ~cfg.gemini /\ ActionIs("healthCheck")
    /\ cfg.nlp /\ cfg.translate
    /\ Len(resp) = 1 /\ FailureEnvelope(resp[1]) /\ ops = <<>>

\* the runs of the two-request study
Runs == {runs[i] : i \in 1..Len(runs)}

OpOf(r) == r.ops[1]

\* the run executed one of the six operations
RanOperation(r) == Len(r.ops) = 1 /\ r.ops[1] \in Operations

\* the enrichment call (entity and sentiment analysis) was made and failed
EnrichmentFailed(r) ==
    \E i \in 1..Len(r.calls) : r.calls[i].svc = "nlp" /\ ~r.calls[i].ok

DataOfRun(r) == r.resp[1].body.data

ReturnedFallback(r) == IsFallback(OpOf(r), r.req.body.v, DataOfRun(r))

\* the answers of the services give the main step of the operation a result:
\* a non-empty text of the model (any text for assessLegalRisk), a summary
\* of Hugging Face, a translation
MainStepDelivers(r) ==
    LET gem == r.answers.gem
        text == gem.ok /\ gem.text # <<>>
    IN CASE OpOf(r) = "summarizeDocument" ->
              \/ /\ cfg.huggingface
                 /\ Truthy(_summarizeWithHuggingFace(Str(Doc), Str(<<>>), r.answers).val)
              \/ text
         [] OpOf(r) = "translateText" -> r.answers.tr.kind = "ok"
         [] OpOf(r) = "assessLegalRisk" -> gem.ok
         [] OTHER -> text

RiskAnswered ==
    /\ Handled /\ ops = <<"assessLegalRisk">>
    /\ Len(resp) = 1 /\ SuccessEnvelope(resp[1])

\* the call of the operation to the model was made and answered
ModelAnswered ==
    \E i \in 1..Len(calls) : calls[i].svc = "gemini" /\ calls[i].ok

\* C14 as stated: every payload of assessLegalRisk, fallback included, is a
\* record of an analysis part, an assessment part and a timestamp.
C14_Original ==
    RiskAnswered =>
        /\ resp[1].body.data.t = "object"
        /\ DOMAIN resp[1].body.data.v = {"nlpAnalysis", "aiAssessment", "timestamp"}

\* C14 (amended): every payload of assessLegalRisk is a record.  When the
\* model answered it is {nlpAnalysis, aiAssessment, timestamp}: the
\* analysis (null when the Natural Language key is not configured), the
\* text of the model and a timestamp.  On the fallback path it is
\* {error: 'Risk assessment failed', details: <message>}, without analysis,
\* assessment or timestamp.
C14_RiskPayload ==
    RiskAnswered =>
        LET data == resp[1].body.data
        IN /\ data.t = "object"
           /\ IF ModelAnswered
              THEN /\ DOMAIN data.v = {"nlpAnalysis", "aiAssessment", "timestamp"}
                   /\ data.v.aiAssessment.t = "string"
                   /\ data.v.timestamp.t = "string"
                   /\ IF cfg.nlp
                      THEN /\ data.v.nlpAnalysis.t = "object"
                           /\ DOMAIN data.v.nlpAnalysis.v =
                                 {"source", "sentiment", "entities"}
                      ELSE data.v.nlpAnalysis = null
              ELSE /\ DOMAIN data.v = {"error", "details"}
                   /\ data.v.error = Str(<<"Risk assessment failed">>)
                   /\ data.v.details.t = "string"

C14_Witness ==
    /\ RiskAnswered /\ ~ModelAnswered
    /\ req.body.v.documentText = undefined
    /\ DOMAIN resp[1].body.data.v = {"error", "details"}
    /\ resp[1].body.data.v.details = Str(TypeErrorSubstring)

\* the call of the run's operation to its upstream service was made and failed
MainCallFailed(r) ==
    /\ RanOperation(r)
    /\ \E i \in 1..Len(r.calls) :
          r.calls[i].svc = MainService(OpOf(r)) /\ ~r.calls[i].ok

\* C15: two runs of one operation on the same parameters whose upstream
\* calls fail, for whatever reasons, return the same payload.
C15_Original ==
    (/\ Len(runs) = 2 /\ runs[1].req = runs[2].req
     /\ MainCallFailed(runs[1]) /\ MainCallFailed(runs[2])) =>
        DataOfRun(runs[1]) = DataOfRun(runs[2])

\* what does hold: the fallback of the five operations that return a text
\* is the same whatever made the two runs fail
C15_TextFallbackStatic ==
    (/\ Len(runs) = 2 /\ runs[1].req = runs[2].req
     /\ MainCallFailed(runs[1]) /\ MainCallFailed(runs[2])
     /\ OpOf(runs[1]) # "assessLegalRisk") =>
        DataOfRun(runs[1]) = DataOfRun(runs[2])

C15_TwoFailures ==
    /\ Len(runs) = 2 /\ runs[1].req = runs[2].req
    /\ MainCallFailed(runs[1]) /\ MainCallFailed(runs[2])
    /\ OpOf(runs[1]) = "summarizeDocument"
    /\ runs[1].answers.gem.message # runs[2].answers.gem.message
    /\ runs[1].answers.nlp.kind = "ok" /\ runs[2].answers.nlp.kind = "neterr"

\* the calls the run made to the generative model
ModelCalls(r) ==
    Cardinality({i \in 1..Len(r.calls) : r.calls[i].svc = "gemini"})

\* the parameters let the operation build its prompt
PromptBuilt(r) ==
    LET p == r.req.body.v
    IN CASE OpOf(r) = "askLegalQuestion" -> TRUE
         [] OpOf(r) = "compareDocuments" ->
              p.doc1Text.t = "string" /\ p.doc2Text.t = "string"
         [] OTHER -> p.documentText.t = "string"

\* Hugging Face is configured and its reply holds a summary
SummarizedByHuggingFace(r) ==
    /\ cfg.huggingface
    /\ Truthy(_summarizeWithHuggingFace(r.req.body.v.documentText, Str(<<>>),
                                        r.answers).val)

\* C16 as stated: each of the six operations makes exactly one call to the
\* generative model per request.
C16_Original ==
    \A r \in Runs : RanOperation(r) => ModelCalls(r) = 1

\* C16 (amended): an operation makes at most one call to the generative
\* model per request and never repeats a failed one.  It makes none when
\* the operation is translateText, when its prompt cannot be built from the
\* parameters, or when summarizeDocument got a summary from Hugging Face;
\* in every other case it makes exactly one.
C16_AtMostOneModelCall ==
    \A r \in Runs :
        RanOperation(r) =>
            ModelCalls(r) =
                (IF \/ OpOf(r) = "translateText"
                    \/ ~PromptBuilt(r)
                    \/ OpOf(r) = "summarizeDocument" /\ SummarizedByHuggingFace(r)
                 THEN 0 ELSE 1)

C16_Witness ==
    \E r \in Runs :
        /\ RanOperation(r) /\ OpOf(r) = "summarizeDocument"
        /\ SummarizedByHuggingFace(r)
        /\ ModelCalls(r) = 0
        /\ SuccessEnvelope(r.resp[1])
        /\ DataOfRun(r) = Str(<<"bart summary">>)

\* the calls of the running request to a service that have been sent
SentTo(svc) == {i \in 1..Len(calls) : calls[i].svc = svc}

\* C17: within a request, the enrichment call has returned before the call
\* to the model is sent and is never sent after it, so the two are never in
\* flight together; and no two outbound calls of a request are ever in
\* flight at the same time.
C17_EnrichmentAwaited ==
    /\ Cardinality(inflight) <= 1
    /\ \A i \in SentTo("gemini") :
          \A j \in SentTo("nlp") : j < i /\ j \notin inflight

C17_Witness ==
    /\ pc = "received" /\ ActionIs("askLegalQuestion")
    /\ Len(calls) = 2
    /\ calls[1].svc = "nlp" /\ ~calls[1].ok
    /\ calls[2].svc = "gemini"
    /\ inflight = {2}

\* performSemanticSearch ran with the Natural Language key configured, so
\* that its first source had given its result, and the call to the model
\* then failed
SearchFailedAfterPartial ==
    /\ Handled /\ ops = <<"performSemanticSearch">>
    /\ cfg.nlp
    /\ UpstreamFailed

\* C18: when the call to the model fails after another search source gave
\* its result, the payload of performSemanticSearch is exactly the fallback
\* search text and holds nothing of that result.
C18_NoPartialResults ==
    SearchFailedAfterPartial =>
        /\ Len(resp) = 1 /\ SuccessEnvelope(resp[1])
        /\ resp[1].body.data = Str(_getFallbackSearchResults(req.body.v.query))
        /\ ~Contains(resp[1].body.data.v, "NLP-based search results for: ")
        /\ ~Contains(resp[1].body.data.v, "Google Natural Language")

C18_Witness ==
    /\ SearchFailedAfterPartial
    /\ cfg.huggingface
    /\ req.body.v.query = Str(Question)
    /\ Len(calls) = 1
    /\ resp[1].body.data = Str(_getFallbackSearchResults(Str(Question)))

\* the run called the model and the model answered with a text that is not
\* empty
ModelGaveText(r) ==
    /\ RanOperation(r)
    /\ \E i \in 1..Len(r.calls) : r.calls[i].svc = "gemini" /\ r.calls[i].ok
    /\ r.answers.gem.text # <<>>

ModelText(r) == r.answers.gem.text

\* the payload is a record that holds the text of the model and a timestamp
WrappedWithTimestamp(r) ==
    /\ DataOfRun(r).t = "object"
    /\ DOMAIN DataOfRun(r).v = {"nlpAnalysis", "aiAssessment", "timestamp"}
    /\ DataOfRun(r).v.aiAssessment = Str(ModelText(r))
    /\ DataOfRun(r).v.timestamp.t = "string"

\* C19 as stated: on the success path every operation but assessLegalRisk
\* returns the text of the model unchanged, and assessLegalRisk returns it
\* in a record with a timestamp.
C19_Original ==
    \A r \in Runs :
        ModelGaveText(r) =>
            /\ Len(r.resp) = 1 /\ SuccessEnvelope(r.resp[1])
            /\ IF OpOf(r) = "assessLegalRisk" THEN WrappedWithTimestamp(r)
               ELSE DataOfRun(r) = Str(ModelText(r))

\* the payload is the report of performSemanticSearch: a heading that names
\* the query, a section of its own for the text of the model, and a closing
\* line
SearchReport(r) ==
    LET s == DataOfRun(r).v
    IN /\ DataOfRun(r).t = "string"
       /\ Len(s) > Len(ModelText(r)) + 2
       /\ s[1] = "**Enhanced Semantic Search Results for: \""
       /\ s[Len(s)] = " service(s) for comprehensive analysis."
       /\ \E i \in 1..(Len(s) - Len(ModelText(r)) - 2) :
             /\ s[i] = "### " /\ s[i + 1] = "Gemini AI" /\ s[i + 2] = " Analysis\n"
             /\ SubSeq(s, i + 3, i + 2 + Len(ModelText(r))) = ModelText(r)

\* C19 (amended): when the model answers with a text that is not empty,
\* askLegalQuestion, summarizeDocument and compareDocuments return that text
\* unchanged, assessLegalRisk returns it as the aiAssessment of a record
\* with a timestamp, and performSemanticSearch returns it inside a report:
\* under a heading that names the query, in a section of its own next to
\* the sections of the other sources, before a closing line.
C19_ModelTextReturned ==
    \A r \in Runs :
        ModelGaveText(r) =>
            /\ Len(r.resp) = 1 /\ SuccessEnvelope(r.resp[1])
            /\ CASE OpOf(r) = "assessLegalRisk" -> WrappedWithTimestamp(r)
                 [] OpOf(r) = "performSemanticSearch" -> SearchReport(r)
                 [] OTHER -> DataOfRun(r) = Str(ModelText(r))

C19_Witness ==
    \E r \in Runs :
        /\ ModelGaveText(r) /\ OpOf(r) = "performSemanticSearch"
        /\ cfg.nlp /\ cfg.huggingface
        /\ SearchReport(r)
        /\ Contains(DataOfRun(r).v, "NLP-based search results for: ")
        /\ DataOfRun(r) # Str(ModelText(r))

\* what a backend that has handled nothing before answers to the request of
\* run r, the services answering and the clock reading as they did in r
Fresh(r) == handler(r.req, cfg, FALSE, r.at[1], r.at[2], r.answers)

\* C20: the response to a request depends only on the request, the keys
\* configured, the answers to its own calls and the clock: a backend that
\* has handled a request before (its model being initialised) responds,
\* executes and calls as one that has handled none, and two requests that
\* are equal and are answered alike get equal responses.
C20_Stateless ==
    /\ \A r \in Runs :
          r.initialised =>
              /\ r.resp = Fresh(r).resp
              /\ r.ops = Fresh(r).ops
              /\ r.calls = Fresh(r).calls
    /\ (/\ Len(runs) = 2 /\ runs[1].req = runs[2].req
        /\ runs[1].answers = runs[2].answers /\ runs[1].at = runs[2].at) =>
           /\ runs[1].resp = runs[2].resp
           /\ runs[1].calls = runs[2].calls

C20_Witness ==
    /\ Len(runs) = 2
    /\ ~runs[1].initialised /\ runs[2].initialised
    /\ runs[1].ops = <<"healthCheck">>
    /\ runs[2].ops = <<"askLegalQuestion">>
    /\ SuccessEnvelope(runs[2].resp[1])
    /\ DataOfRun(runs[2]) = Str(<<"model text">>)

-----------------------------------------------------------------------------
(* Prompt construction, and the summarizer of summarizeDocument.           *)

\* the operations whose prompt takes a prefix of a document text
TextOperations ==
    {"summarizeDocument", "performSemanticSearch", "compareDocuments",
     "assessLegalRisk"}

\* a text the prompt of the operation executed needs is missing from req
TextMissing ==
    LET p == req.body.v
    IN IF ops = <<"compareDocuments">>
       THEN p.doc1Text.t # "string" \/ p.doc2Text.t # "string"
       ELSE p.documentText.t # "string"

\* the handler executed an operation whose prompt could not be built
PromptFailed ==
    /\ Handled /\ Len(ops) = 1 /\ ops[1] \in TextOperations
    /\ TextMissing

\* C21: when building the prompt of an operation throws because a document
\* text is missing from the request, the operation catches the error: the
\* request is answered with one success envelope whose data is the fallback
\* of the operation, and the model is not called.
C21_PromptErrorCaught ==
    PromptFailed =>
        /\ Len(resp) = 1 /\ SuccessEnvelope(resp[1])
        /\ IsFallback(ops[1], req.body.v, resp[1].body.data)
        /\ \A i \in 1..Len(calls) : calls[i].svc # "gemini"

C21_Witness ==
    /\ PromptFailed /\ ops = <<"compareDocuments">>
    /\ req.body.v.doc1Text = Str(Doc) /\ req.body.v.doc2Text = undefined
    /\ SuccessEnvelope(resp[1])
    /\ resp[1].body.data = Str(FallbackComparison)
    /\ calls = <<>>

-----------------------------------------------------------------------------
(* The client dispatcher under overlapping invocations.                    *)

\* the requests of invocation k that are on their way
InFlightOf(k) ==
    {m \in net : m.id = k /\ m.call = invoked[k] /\ m.body = Stringify(invoked[k])}

\* the completions of invocation k
CompletionsOf(k) ==
    {j \in 1..Len(done) : done[j].id = k /\ done[j].call = invoked[k]}

\* what the backend answers to a call when the Gemini key is configured, as
\* _callServerless hands it on
OwnOutcome(d) ==
    CASE d.call.action = Str(<<"healthCheck">>) ->
           /\ d.outcome.kind = "return"
           /\ d.outcome.value.t = "object"
           /\ d.outcome.value.v.status = Str(<<"healthy">>)
      [] d.call.action = Str(<<"compareDocuments">>) ->
           d.outcome = Return(Str(FallbackComparison))
      [] OTHER -> d.outcome = Throw(<<"Serverless AI API error">>)

\* C22: every invocation of the client dispatcher issues exactly one
\* request, its own: at any moment the request is on its way or the
\* invocation has completed once, never both, never twice, never neither,
\* whatever other invocations are under way; there are no other requests;
\* and an invocation the backend answered completes with the answer to its
\* own request.
C22_OneRequestEach ==
    /\ \A k \in 1..Len(invoked) :
          Cardinality(InFlightOf(k)) + Cardinality(CompletionsOf(k)) = 1
    /\ Cardinality(net) + Len(done) = Len(invoked)
    /\ \A j \in 1..Len(done) :
          (done[j].response.kind = "http" /\ done[j].response.from = "backend"
           /\ cfg.gemini) => OwnOutcome(done[j])

\* two invocations overlapped and the one started last completed first,
\* each with the answer of the backend to its own request
C22_Witness ==
    /\ Len(invoked) = 2 /\ Len(done) = 2
    /\ done[1].id = 2 /\ done[2].id = 1
    /\ cfg.gemini
    /\ invoked[1].action = Str(<<"healthCheck">>)
    /\ invoked[2].action = Str(<<"doTheThing">>)
    /\ done[1].response.kind = "http" /\ done[1].response.from = "backend"
    /\ done[2].response.kind = "http" /\ done[2].response.from = "backend"
    /\ done[1].outcome.kind = "throw"
    /\ done[2].outcome.kind = "return"

-----------------------------------------------------------------------------
(* The chat under overlapping sends.                                       *)

IsReply(m) == m.sender = "ai" /\ m.content = SimulatedReply

\* the replies #chat-messages shows, by position
RepliesShown == {i \in 1..Len(chatMessages) : IsReply(chatMessages[i])}

Replies == Len(SelectSeq(chatEvents, LAMBDA e : e = "reply"))

\* two sends overlapped and both replies have arrived
BothArrived == chatEvents = <<"send", "send", "reply", "reply">>

\* C23 as stated: after the replies to two overlapping sends have arrived,
\* the display shows the reply that arrived last and not the earlier one.
C23_Original == BothArrived => Cardinality(RepliesShown) = 1

\* C23 (amended): every reply is appended to the display and nothing is
\* replaced: the display shows as many replies as have arrived, and after
\* the replies to two overlapping sends have arrived it shows both, the
\* earlier above the later, below the two messages sent and their typing
\* indicators.
C23_RepliesAppended ==
    /\ Cardinality(RepliesShown) = Replies
    /\ Len(chatMessages) = 2 * Sends + Replies
    /\ BothArrived =>
          /\ Len(chatMessages) = 6
          /\ chatMessages[1].sender = "user" /\ chatMessages[3].sender = "user"
          /\ RepliesShown = {5, 6}

C23_Witness ==
    /\ BothArrived
    /\ chatMessages[1].content = <<"hi">>
    /\ chatMessages[3].content = <<"bye">>
    /\ IsReply(chatMessages[5]) /\ IsReply(chatMessages[6])
    /\ chatTimers = <<>>

-----------------------------------------------------------------------------
(* The staged files and what the page shows of them.                       *)

\* #file-list and #viewer-document show the staged files, one entry each in
\* the order of uploadedFiles, the selector after its placeholder option
ShowsStaged(staged, list, options) ==
    /\ Len(list) = Len(staged)
    /\ Len(options) = Len(staged) + 1
    /\ options[1] = [value |-> "", text |-> "Select a document to view..."]
    /\ \A i \in 1..Len(staged) :
          /\ list[i].remove = ToString(staged[i].id)
          /\ list[i].process = ToString(staged[i].id)
          /\ options[i + 1] = [value |-> ToString(staged[i].id),
                               text |-> staged[i].name]

\* the positions of staged whose entry does not have the id
Others(staged, id) == {i \in 1..Len(staged) : ToString(staged[i].id) # id}

\* after is staged without the entries that have the id, the others being
\* kept in their order
RemovedExactly(staged, id, after) ==
    /\ Len(after) = Cardinality(Others(staged, id))
    /\ \A i \in Others(staged, id) :
          after[Cardinality({k \in Others(staged, id) : k <= i})] = staged[i]

\* C24: at every moment the rendered file list and the document selector
\* hold exactly the entries of uploadedFiles, in its order; and every call
\* removeFile(id) removes exactly the staged entries whose id is id, leaving
\* the others and their order as they were, so that an id no entry has
\* changes nothing.
C24_ListsFollowStaged ==
    /\ []ShowsStaged(uploadedFiles, fileList, selector)
    /\ [][Len(removals') > Len(removals) =>
            RemovedExactly(uploadedFiles, removals'[Len(removals')],
                           uploadedFiles')]_vars

\* two files staged with different ids and the first removed, which left the
\* second
C24_Witness ==
    /\ Len(uploads) = 1 /\ Len(uploads[1]) = 2
    /\ Len(removals) = 1
    /\ Len(uploadedFiles) = 1
    /\ ToString(uploadedFiles[1].id) # removals[1]
    /\ uploadedFiles[1].file = uploads[1][2]
    /\ uploads[1][1] # uploads[1][2]
    /\ ShowsStaged(uploadedFiles, fileList, selector)

-----------------------------------------------------------------------------
(* The two summarizers of summarizeDocument.                               *)

\* the summary_text the reply of Hugging Face holds, undefined when the call
\* fails or the reply holds none
SummaryOf(a) ==
    CASE a.kind = "okArray" /\ a.data # <<>> -> a.data[1].summary_text
      [] a.kind = "okObject" -> a.data.summary_text
      [] OTHER -> undefined

\* Hugging Face is configured and answers with a non-empty summary
HuggingFaceGave(r) ==
    /\ cfg.huggingface
    /\ SummaryOf(r.answers.hf).t = "string"
    /\ SummaryOf(r.answers.hf).v # <<>>

Summarizations == {r \in Runs : RanOperation(r) /\ OpOf(r) = "summarizeDocument"}

\* C25: a request of summarizeDocument calls the model only when Hugging Face
\* is not configured or gave no summary (its call failed or its reply held
\* none); when Hugging Face gives a non-empty summary, that summary is the
\* payload of the response and the model is not called for the request.
C25_ModelOnlyWithoutSummary ==
    \A r \in Summarizations :
       /\ ModelCalls(r) > 0 => ~HuggingFaceGave(r)
       /\ HuggingFaceGave(r) =>
             /\ ModelCalls(r) = 0
             /\ SuccessEnvelope(r.resp[1])
             /\ DataOfRun(r) = SummaryOf(r.answers.hf)

\* one document summarized twice: by Hugging Face without a call to the
\* model, and, Hugging Face failing, by the model
C25_Witness ==
    /\ Len(runs) = 2 /\ runs[1].req = runs[2].req
    /\ runs[1] \in Summarizations
    /\ HuggingFaceGave(runs[1])
    /\ ModelCalls(runs[1]) = 0
    /\ DataOfRun(runs[1]) = Str(<<"bart summary">>)
    /\ runs[2].answers.hf.kind = "neterr"
    /\ ModelCalls(runs[2]) = 1
    /\ ModelGaveText(runs[2])
    /\ DataOfRun(runs[2]) = Str(ModelText(runs[2]))

-----------------------------------------------------------------------------
(* The model answers with an empty text.                                   *)

\* the call to the model succeeded and its text is empty
ModelGaveNothing(r) ==
    /\ RanOperation(r)
    /\ \E i \in 1..Len(r.calls) : r.calls[i].svc = "gemini" /\ r.calls[i].ok
    /\ r.answers.gem.text = <<>>

\* the sources of performSemanticSearch other than the model
OtherSources == {s \in {"nlp", "huggingface"} : cfg[s]}

\* C26: when the call to the model succeeds with an empty text,
\* askLegalQuestion and summarizeDocument return their fallback and not the
\* empty text, performSemanticSearch returns its fallback when no source
\* gave a result, and compareDocuments returns the empty text as it is.
C26_EmptyModelText ==
    \A r \in Runs :
       ModelGaveNothing(r) =>
          /\ SuccessEnvelope(r.resp[1])
          /\ OpOf(r) \in {"askLegalQuestion", "summarizeDocument"} =>
                ReturnedFallback(r) /\ DataOfRun(r) # Str(<<>>)
          /\ (OpOf(r) = "performSemanticSearch" /\ OtherSources = {}) =>
                ReturnedFallback(r)
          /\ OpOf(r) = "compareDocuments" => DataOfRun(r) = Str(<<>>)

\* the model gives an empty text to a search that has no other source, which
\* returns its fallback, and to a comparison, which returns the empty text
C26_Witness ==
    /\ Len(runs) = 2
    /\ ModelGaveNothing(runs[1]) /\ ModelGaveNothing(runs[2])
    /\ OpOf(runs[1]) = "performSemanticSearch" /\ OtherSources = {}
    /\ ReturnedFallback(runs[1])
    /\ OpOf(runs[2]) = "compareDocuments"
    /\ DataOfRun(runs[2]) = Str(<<>>)
    /\ ~ReturnedFallback(runs[2])

-----------------------------------------------------------------------------
(* The runs of the progress bar.                                           *)

RunIds == 1..Len(timers)

\* the calls of showProcessingComplete made by run k
CompletionsOfRun(k) == {i \in 1..Len(completions) : completions[i] = k}

\* the upload events that had at least one file selected
EventsWithFiles == {i \in 1..Len(uploads) : Len(uploads[i]) > 0}

\* every run is within 0..100, its timer is cleared exactly when it is at
\* 100, and it has called showProcessingComplete once if it is at 100 and
\* never otherwise; there is a run for each upload event with a file
RunsInRange ==
    /\ Len(timers) = Cardinality(EventsWithFiles)
    /\ progressShown.width <= 100 * RandomGrain
    /\ progressShown.percent <= 100
    /\ \A k \in RunIds :
          /\ timers[k].progress \in 0..(100 * RandomGrain)
          /\ timers[k].cleared <=> timers[k].progress = 100 * RandomGrain
          /\ Cardinality(CompletionsOfRun(k)) = IF timers[k].cleared THEN 1 ELSE 0

\* a step keeps every run, lowers the progress of none, leaves a run whose
\* timer is cleared as it is, and moves at most one run, whose progress is
\* then what the progress element shows
RunsAdvance ==
    /\ Len(timers') >= Len(timers)
    /\ \A k \in RunIds :
          /\ timers'[k].progress >= timers[k].progress
          /\ timers[k].cleared => timers'[k] = timers[k]
          /\ timers'[k] # timers[k] =>
                /\ \A j \in RunIds \ {k} : timers'[j] = timers[j]
                /\ progressShown'.width = timers'[k].progress
                /\ 2 * progressShown'.percent * RandomGrain
                      \in (2 * timers'[k].progress - RandomGrain + 1)
                          ..(2 * timers'[k].progress + RandomGrain)

\* C27: the progress each run of simulateProcessing displays never decreases
\* and never exceeds 100; when a run reaches 100 its timer is cleared and it
\* calls showProcessingComplete, once; every upload event with at least one
\* file selected starts a run, also when all its files are rejected; and
\* runs that overlap advance each on its own, each writing its progress to
\* the one progress element.
C27_RunsProgress == []RunsInRange /\ [][RunsAdvance]_vars

\* two events whose only file is rejected started a run each; the first run
\* is complete, and the second, which overlapped it, is on its way and is
\* what the progress element shows
C27_Witness ==
    /\ uploads = <<<<Over>>, <<Over>>>>
    /\ uploadedFiles = <<>> /\ Len(alerts) = 2
    /\ Len(timers) = 2
    /\ timers[1].cleared /\ completions = <<1>>
    /\ timers[2].progress > 0 /\ ~timers[2].cleared
    /\ progressShown.width = timers[2].progress
    /\ progressShown.width < 100 * RandomGrain
=============================================================================
